---------------------------- MODULE Spec2Model ----------------------------
(***************************************************************************)
(* A model of the CHD v5 reader (src/src/lib.rs): opening a file, the      *)
(* hunk map lookup, recursive SELF/PARENT hunk resolution, the one-hunk    *)
(* read cache behind seek/read, parent linking and per-hunk validation.    *)
(*                                                                         *)
(* Integers.  TLC's integers are 32 bits wide, the program's u64, i64 and  *)
(* usize are 64 bits wide.  A 64-bit quantity that can be large is a       *)
(* "wide" value [k, r] standing for the exact integer k * 2^62 + r with    *)
(* |r| < 2^30: the values near 0, near 2^63 and near 2^64, which are the   *)
(* ones the casts, the checked additions and the wrap-arounds of the code  *)
(* distinguish.  Addition, subtraction and comparison of wide values are   *)
(* exact.  Quantities that stay small (pos, offsets inside a hunk, buffer  *)
(* lengths) are plain integers.                                            *)
(***************************************************************************)
EXTENDS Integers, Sequences, FiniteSets, TLC

VARIABLES
    file,    \* the byte source handed to Chd::open (never written)
    build,   \* how the crate was compiled: "debug" checks integer overflow
    chd,     \* <<>> before open and after a failed open, else <<the Chd>>
    last     \* the last call made on the reader and what it returned

vars == <<file, build, chd, last>>

-----------------------------------------------------------------------------
(* Wide integers: k * 2^62 + r *)

W(k, r) == [k |-> k, r |-> r]
WInt(n) == W(0, n)
WAdd(a, b) == W(a.k + b.k, a.r + b.r)
WSub(a, b) == W(a.k - b.k, a.r - b.r)
WLt(a, b) == a.k < b.k \/ (a.k = b.k /\ a.r < b.r)
WLe(a, b) == a = b \/ WLt(a, b)

U64_MAX == W(4, -1)
I64_MAX == W(2, -1)
I64_MIN == W(-2, 0)
USIZE_MAX == U64_MAX
TWO64 == W(4, 0)

InU64(a) == WLe(WInt(0), a) /\ WLe(a, U64_MAX)
InI64(a) == WLe(I64_MIN, a) /\ WLe(a, I64_MAX)

\* `x as i64` of a u64, `x as u64` / `x as usize` of an i64
AsI64(a) == IF WLt(I64_MAX, a) THEN WSub(a, TWO64) ELSE a
AsU64(a) == IF WLt(a, WInt(0)) THEN WAdd(a, TWO64) ELSE a

\* An unsigned 64-bit `+` or `-`: in a build with overflow checks an
\* out-of-range result panics, otherwise it wraps modulo 2^64.
Wrap64(a) ==
    IF WLt(a, WInt(0)) THEN WAdd(a, TWO64)
    ELSE IF WLt(U64_MAX, a) THEN WSub(a, TWO64) ELSE a
UArith(exact, bld) ==
    IF InU64(exact) THEN [panic |-> FALSE, v |-> exact]
    ELSE [panic |-> bld = "debug", v |-> Wrap64(exact)]

\* Rust's `/` and `%` on signed integers truncate toward zero
TruncDiv(a, b) == IF a >= 0 THEN a \div b ELSE -((-a) \div b)
TruncRem(a, b) == a - b * TruncDiv(a, b)

-----------------------------------------------------------------------------
(* Results.  A call returns Ok ("ok"), an io::Error of some kind, or does  *)
(* not return at all because the thread panicked ("panic") or because the *)
(* call recurses without end ("diverges").                                *)

ErrKinds == {"InvalidData", "InvalidInput", "UnexpectedEof"}
IsErr(res) == res \in ErrKinds

-----------------------------------------------------------------------------
(* CRC-16/CCITT-FALSE: polynomial 0x1021, initial value 0xFFFF, no         *)
(* reflection, no final xor (the crc16 crate's CCITT_FALSE).               *)

RECURSIVE Xor(_, _, _)
Xor(a, b, bits) ==
    IF bits = 0 THEN 0
    ELSE ((a + b) % 2) + 2 * Xor(a \div 2, b \div 2, bits - 1)

RECURSIVE CrcShift(_, _)
CrcShift(crc, n) ==
    IF n = 0 THEN crc
    ELSE CrcShift(IF crc >= 32768
                  THEN Xor((crc * 2) % 65536, 4129, 16)
                  ELSE (crc * 2) % 65536, n - 1)

\* The byte-at-a-time form: crc = (crc << 8) ^ table[(crc >> 8) ^ byte]
XorByte == [a \in 0..255 |-> [b \in 0..255 |-> Xor(a, b, 8)]]
CrcTable == [b \in 0..255 |-> CrcShift(b * 256, 8)]
CrcEntry(crc, entry) == XorByte[crc % 256][entry \div 256] * 256 + (entry % 256)
CrcByte(crc, byte) == CrcEntry(crc, CrcTable[XorByte[crc \div 256][byte]])

RECURSIVE CrcFrom(_, _, _)
CrcFrom(crc, data, i) ==
    IF crc \in 0..65535 /\ i <= Len(data)
    THEN CrcFrom(CrcByte(crc, data[i]), data, i + 1)
    ELSE crc

crc16(data) == CrcFrom(65535, data, 1)

-----------------------------------------------------------------------------
(* Format constants *)

V5 == 5
HEADER_LENGTH == 124
MAX_HUNKBYTES == 512 * 1024
MAGIC == <<77, 67, 111, 109, 112, 114, 72, 68>>       \* b"MComprHD"

COMPRESSION_TYPE_0 == 0
COMPRESSION_TYPE_3 == 3
COMPRESSION_NONE == 4
COMPRESSION_SELF == 5
COMPRESSION_PARENT == 6
\* symbols of the compressed map stream only
COMPRESSION_RLE_SMALL == 7
COMPRESSION_RLE_LARGE == 8
COMPRESSION_SELF_0 == 9
COMPRESSION_SELF_1 == 10
COMPRESSION_PARENT_SELF == 11
COMPRESSION_PARENT_0 == 12
COMPRESSION_PARENT_1 == 13

make_tag(c) == c[1] * 16777216 + c[2] * 65536 + c[3] * 256 + c[4]
CHD_CODEC_HUFF == make_tag(<<104, 117, 102, 102>>)    \* 'h','u','f','f'
CHD_CODEC_FLAC == make_tag(<<102, 108, 97, 99>>)      \* 'f','l','a','c'
CHD_CODEC_LZMA == make_tag(<<108, 122, 109, 97>>)     \* 'l','z','m','a'
CHD_CODEC_ZLIB == make_tag(<<122, 108, 105, 98>>)     \* 'z','l','i','b'
CHD_CODEC_CD_FLAC == make_tag(<<99, 100, 102, 108>>)  \* 'c','d','f','l'
CHD_CODEC_CD_LZMA == make_tag(<<99, 100, 108, 122>>)  \* 'c','d','l','z'
CHD_CODEC_CD_ZLIB == make_tag(<<99, 100, 122, 108>>)  \* 'c','d','z','l'

\* src/cd.rs
MAX_SECTOR_DATA == 2352
MAX_SUBCODE_DATA == 96
FRAME_SIZE == MAX_SECTOR_DATA + MAX_SUBCODE_DATA

-----------------------------------------------------------------------------
(* Header::read and Header::read_header_v5.  A file is given by its parsed *)
(* header fields, the hunk map it stores, and the bytes of its hunk        *)
(* storage area (map offsets count from the start of that area).           *)

NoHeader == [length |-> 0, version |-> 0, compressors |-> <<0, 0, 0, 0>>,
             size |-> WInt(0), hunkbytes |-> 0, unitbytes |-> 0,
             sha1 |-> 0, parentsha1 |-> 0, hunkcount |-> 0]

\* lib.rs 148-155: hunkcount = (size + hunkbytes - 1) / hunkbytes as u64
\* arithmetic, then u32::try_from.  A dividend of 2^62 or more divided by
\* hunkbytes <= 2^19 exceeds u32::MAX, a dividend below 2^30 never does.
HunkCount(size, hunkbytes, bld) ==
    LET sum == UArith(WAdd(size, WInt(hunkbytes)), bld)
        num == UArith(WSub(sum.v, WInt(1)), bld)
    IN  IF sum.panic \/ num.panic THEN [res |-> "panic", hunkcount |-> 0]
        ELSE IF num.v.k # 0 THEN [res |-> "InvalidData", hunkcount |-> 0]
        ELSE [res |-> "ok", hunkcount |-> num.v.r \div hunkbytes]

\* read_header_v5 without the test that unitbytes divides hunkbytes
read_header_v5_NoMultiple(f, bld) ==
    LET cnt == HunkCount(f.size, f.hunkbytes, bld)
        hdr == [length |-> f.length, version |-> f.version,
                compressors |-> f.compressors, size |-> f.size,
                hunkbytes |-> f.hunkbytes, unitbytes |-> f.unitbytes,
                sha1 |-> f.sha1, parentsha1 |-> f.parentsha1,
                hunkcount |-> cnt.hunkcount]
    IN  IF f.length # HEADER_LENGTH
        THEN [res |-> "InvalidData", header |-> NoHeader]
        ELSE IF f.hunkbytes < 1 \/ f.hunkbytes > MAX_HUNKBYTES
        THEN [res |-> "InvalidData", header |-> NoHeader]
        ELSE IF f.unitbytes < 1 \/ f.hunkbytes < f.unitbytes
        THEN [res |-> "InvalidData", header |-> NoHeader]
        ELSE IF cnt.res # "ok"
        THEN [res |-> cnt.res, header |-> NoHeader]
        ELSE [res |-> "ok", header |-> hdr]

read_header_v5(f, bld) ==
    LET cnt == HunkCount(f.size, f.hunkbytes, bld)
        hdr == [length |-> f.length, version |-> f.version,
                compressors |-> f.compressors, size |-> f.size,
                hunkbytes |-> f.hunkbytes, unitbytes |-> f.unitbytes,
                sha1 |-> f.sha1, parentsha1 |-> f.parentsha1,
                hunkcount |-> cnt.hunkcount]
    IN  IF f.length # HEADER_LENGTH
        THEN [res |-> "InvalidData", header |-> NoHeader]
        ELSE IF f.hunkbytes < 1 \/ f.hunkbytes > MAX_HUNKBYTES
        THEN [res |-> "InvalidData", header |-> NoHeader]
        ELSE IF f.unitbytes < 1 \/ f.hunkbytes < f.unitbytes
                \/ f.hunkbytes % f.unitbytes > 0
        THEN [res |-> "InvalidData", header |-> NoHeader]
        ELSE IF cnt.res # "ok"
        THEN [res |-> cnt.res, header |-> NoHeader]
        ELSE [res |-> "ok", header |-> hdr]

\* The Huffman decoder of src/huffman.rs over the bit reader of
\* src/bitstream.rs, reduced to whole bytes: the first byte stands for the
\* encoded tree (0: a malformed tree), every later byte is one symbol, and a
\* read past the end yields 0 and sets the sticky overflow flag.
import_tree_huffman(src) == Len(src) >= 1 /\ src[1] # 0
decode_one(src, i) == IF i + 1 <= Len(src) THEN src[i + 1] ELSE 0
overflow(src, consumed) == consumed + 1 > Len(src)

\* UncompressedMap5::read: one u32 per hunk, read_at of 4 * hunkcount bytes
UncompressedMap5Read(f, hdr) ==
    IF ~f.mapok \/ Len(f.map) < hdr.hunkcount
    THEN [res |-> "UnexpectedEof", map |-> [compressed |-> FALSE, entries |-> <<>>]]
    ELSE [res |-> "ok",
          map |-> [compressed |-> FALSE, entries |-> SubSeq(f.map, 1, hdr.hunkcount)]]

\* The bit stream of a compressed map, reduced to whole tokens: the first
\* token stands for the RLE-encoded Huffman tree (0: a malformed tree), each
\* later token is consumed either as one Huffman symbol (decode_one, of a
\* decoder with 16 codes) or as one bit field (BitReader::read of n bits).
\* A read past the end yields 0.
import_tree_rle(src) == Len(src) >= 1 /\ src[1] # 0
bits_read(src, i, n) ==
    IF i + 1 > Len(src) THEN 0
    ELSE IF n >= 31 THEN src[i + 1] ELSE src[i + 1] % (2 ^ n)

\* CompressedMap5::decompress, pass 1: the compression type of every hunk.
\* used counts the tokens consumed so far.
RECURSIVE Pass1(_, _, _, _, _, _, _)
Pass1Store(src, hunkcount, hunknum, lastcomp, repcount, used, types) ==
    Pass1(src, hunkcount, hunknum + 1, lastcomp, repcount, used,
          Append(types, lastcomp))

\* pass 1 with a run of RLE_SMALL one hunk short
Pass1Symbol_ShortRun(src, hunkcount, hunknum, lastcomp, used, types, sym) ==
    IF sym = COMPRESSION_RLE_SMALL
    THEN Pass1Store(src, hunkcount, hunknum, lastcomp,
                    1 + (decode_one(src, used + 2) % 16), used + 2, types)
    ELSE IF sym = COMPRESSION_RLE_LARGE
    THEN Pass1Store(src, hunkcount, hunknum, lastcomp,
                    2 + 16 + (decode_one(src, used + 2) % 16) * 16
                      + (decode_one(src, used + 3) % 16),
                    used + 3, types)
    ELSE Pass1Store(src, hunkcount, hunknum, sym, 0, used + 1, types)

Pass1Symbol(src, hunkcount, hunknum, lastcomp, used, types, sym) ==
    IF sym = COMPRESSION_RLE_SMALL
    THEN Pass1Store(src, hunkcount, hunknum, lastcomp,
                    2 + (decode_one(src, used + 2) % 16), used + 2, types)
    ELSE IF sym = COMPRESSION_RLE_LARGE
    THEN Pass1Store(src, hunkcount, hunknum, lastcomp,
                    2 + 16 + (decode_one(src, used + 2) % 16) * 16
                      + (decode_one(src, used + 3) % 16),
                    used + 3, types)
    ELSE Pass1Store(src, hunkcount, hunknum, sym, 0, used + 1, types)

Pass1(src, hunkcount, hunknum, lastcomp, repcount, used, types) ==
    IF hunknum >= hunkcount THEN [types |-> types, used |-> used]
    ELSE IF repcount > 0
    THEN Pass1Store(src, hunkcount, hunknum, lastcomp, repcount - 1, used, types)
    ELSE Pass1Symbol(src, hunkcount, hunknum, lastcomp, used, types,
                     decode_one(src, used + 1) % 16)

\* CompressedMap5::bit_length
bit_length(val) == val < 32

\* One expanded map entry: write_be24 and write_be16 keep the low 24 and 16
\* bits (offsets stay far below 2^48 here)
Entry(compression, complength, offset, crc) ==
    [compression |-> compression, complength |-> complength % 16777216,
     offset |-> offset, crc |-> crc % 65536]

\* CompressedMap5::decompress, pass 2: lengths, offsets and checksums.
\* used counts the tokens consumed so far.
RECURSIVE Pass2(_, _, _, _, _, _, _, _, _, _)
Pass2Base(hdr, maphdr, src, types, hunknum, curoffset, lastself, lastparent, used, entries, length) ==
    Pass2(hdr, maphdr, src, types, hunknum + 1, curoffset + length,
          lastself, lastparent, used + 2,
          Append(entries, Entry(types[hunknum + 1], length, curoffset,
                                bits_read(src, used + 2, 16))))

Pass2Self(hdr, maphdr, src, types, hunknum, curoffset, lastparent, used, entries, offset) ==
    Pass2(hdr, maphdr, src, types, hunknum + 1, curoffset, offset, lastparent, used,
          Append(entries, Entry(COMPRESSION_SELF, 0, offset, 0)))

Pass2Parent(hdr, maphdr, src, types, hunknum, curoffset, lastself, used, entries, offset) ==
    Pass2(hdr, maphdr, src, types, hunknum + 1, curoffset, lastself, offset, used,
          Append(entries, Entry(COMPRESSION_PARENT, 0, offset, 0)))

\* pass 2 that stores the pseudo-types as it finds them
Pass2Entry_KeepPseudo(hdr, maphdr, src, types, hunknum, curoffset, lastself, lastparent, used, entries, compression) ==
    IF compression >= COMPRESSION_TYPE_0 /\ compression <= COMPRESSION_TYPE_3
    THEN Pass2Base(hdr, maphdr, src, types, hunknum, curoffset, lastself, lastparent,
                   used, entries, bits_read(src, used + 1, maphdr.lengthbits))
    ELSE IF compression = COMPRESSION_NONE
    THEN Pass2(hdr, maphdr, src, types, hunknum + 1, curoffset + hdr.hunkbytes,
               lastself, lastparent, used + 1,
               Append(entries, Entry(COMPRESSION_NONE, hdr.hunkbytes, curoffset,
                                     bits_read(src, used + 1, 16))))
    ELSE IF compression = COMPRESSION_SELF
    THEN Pass2Self(hdr, maphdr, src, types, hunknum, curoffset, lastparent,
                   used + 1, entries, bits_read(src, used + 1, maphdr.hunkbits))
    ELSE IF compression = COMPRESSION_PARENT
    THEN Pass2Parent(hdr, maphdr, src, types, hunknum, curoffset, lastself,
                     used + 1, entries, bits_read(src, used + 1, maphdr.parentbits))
    ELSE IF compression >= COMPRESSION_SELF_0 /\ compression <= COMPRESSION_PARENT_1
    THEN Pass2(hdr, maphdr, src, types, hunknum + 1, curoffset, lastself, lastparent,
               used, Append(entries, Entry(compression, 0, 0, 0)))
    ELSE [res |-> "InvalidData", entries |-> <<>>]

Pass2Entry(hdr, maphdr, src, types, hunknum, curoffset, lastself, lastparent, used, entries, compression) ==
    IF compression >= COMPRESSION_TYPE_0 /\ compression <= COMPRESSION_TYPE_3
    THEN Pass2Base(hdr, maphdr, src, types, hunknum, curoffset, lastself, lastparent,
                   used, entries, bits_read(src, used + 1, maphdr.lengthbits))
    ELSE IF compression = COMPRESSION_NONE
    THEN Pass2(hdr, maphdr, src, types, hunknum + 1, curoffset + hdr.hunkbytes,
               lastself, lastparent, used + 1,
               Append(entries, Entry(COMPRESSION_NONE, hdr.hunkbytes, curoffset,
                                     bits_read(src, used + 1, 16))))
    ELSE IF compression = COMPRESSION_SELF
    THEN Pass2Self(hdr, maphdr, src, types, hunknum, curoffset, lastparent,
                   used + 1, entries, bits_read(src, used + 1, maphdr.hunkbits))
    ELSE IF compression = COMPRESSION_PARENT
    THEN Pass2Parent(hdr, maphdr, src, types, hunknum, curoffset, lastself,
                     used + 1, entries, bits_read(src, used + 1, maphdr.parentbits))
    ELSE IF compression = COMPRESSION_SELF_0 \/ compression = COMPRESSION_SELF_1
    THEN Pass2Self(hdr, maphdr, src, types, hunknum, curoffset, lastparent, used,
                   entries, lastself + (compression - COMPRESSION_SELF_0))
    ELSE IF compression = COMPRESSION_PARENT_SELF
    THEN Pass2Parent(hdr, maphdr, src, types, hunknum, curoffset, lastself, used,
                     entries, (hunknum * hdr.hunkbytes) \div hdr.unitbytes)
    ELSE IF compression = COMPRESSION_PARENT_0
    THEN Pass2Parent(hdr, maphdr, src, types, hunknum, curoffset, lastself, used,
                     entries, lastparent)
    ELSE IF compression = COMPRESSION_PARENT_1
    THEN Pass2Parent(hdr, maphdr, src, types, hunknum, curoffset, lastself, used,
                     entries, lastparent + (hdr.hunkbytes \div hdr.unitbytes))
    ELSE [res |-> "InvalidData", entries |-> <<>>]

Pass2(hdr, maphdr, src, types, hunknum, curoffset, lastself, lastparent, used, entries) ==
    IF hunknum >= hdr.hunkcount THEN [res |-> "ok", entries |-> entries]
    ELSE Pass2Entry(hdr, maphdr, src, types, hunknum, curoffset, lastself,
                    lastparent, used, entries, types[hunknum + 1])

\* The 12 bytes per hunk of the expanded map (CompressedMap5::offset)
EntryByte(e, k) ==
    IF k = 0 THEN e.compression
    ELSE IF k <= 3 THEN (e.complength \div (256 ^ (3 - k))) % 256
    ELSE IF k <= 5 THEN 0
    ELSE IF k <= 9 THEN (e.offset \div (256 ^ (9 - k))) % 256
    ELSE (e.crc \div (256 ^ (11 - k))) % 256
MapBytes(e) == [k \in 1..12 |-> EntryByte(e, k - 1)]

\* crc16(&map), taken entry by entry
RECURSIVE MapCrcFrom(_, _, _)
MapCrcFrom(crc, entries, h) ==
    IF crc \in 0..65535 /\ h <= Len(entries)
    THEN MapCrcFrom(CrcFrom(crc, MapBytes(entries[h]), 1), entries, h + 1)
    ELSE crc
MapCrc(entries) == MapCrcFrom(65535, entries, 1)

\* the end of decompress without the comparison with the header's crc
MapChecked_NoCrc(maphdr, p2) ==
    IF p2.res # "ok"
    THEN [res |-> p2.res, map |-> [compressed |-> TRUE, entries |-> <<>>]]
    ELSE [res |-> "ok", map |-> [compressed |-> TRUE, entries |-> p2.entries]]

\* The end of decompress: the crc of the expanded map against the header's
MapChecked(maphdr, p2) ==
    IF p2.res # "ok"
    THEN [res |-> p2.res, map |-> [compressed |-> TRUE, entries |-> <<>>]]
    ELSE IF MapCrc(p2.entries) # maphdr.crc
    THEN [res |-> "InvalidData", map |-> [compressed |-> TRUE, entries |-> <<>>]]
    ELSE [res |-> "ok", map |-> [compressed |-> TRUE, entries |-> p2.entries]]

\* decompress after pass 1
MapPasses(hdr, maphdr, src, p1) ==
    IF ~ (bit_length(maphdr.lengthbits) /\ bit_length(maphdr.hunkbits)
          /\ bit_length(maphdr.parentbits))
    THEN [res |-> "InvalidData", map |-> [compressed |-> TRUE, entries |-> <<>>]]
    ELSE MapChecked(maphdr,
                    Pass2(hdr, maphdr, src, p1.types, 0, maphdr.firstoffs, 0, 0,
                          p1.used, <<>>))

\* CompressedMap5::decompress
decompress(hdr, maphdr, src) ==
    IF ~import_tree_rle(src)
    THEN [res |-> "InvalidData", map |-> [compressed |-> TRUE, entries |-> <<>>]]
    ELSE MapPasses(hdr, maphdr, src, Pass1(src, hdr.hunkcount, 0, 0, 0, 0, <<>>))

\* CompressedMap5::read: f.map is the map header and the stream after it
CompressedMap5Read(f, hdr) ==
    IF ~f.mapok
    THEN [res |-> "UnexpectedEof", map |-> [compressed |-> TRUE, entries |-> <<>>]]
    ELSE decompress(hdr, f.map.hdr, f.map.comprmap)

MapRead(f, hdr) ==
    IF hdr.compressors[1] = 0 THEN UncompressedMap5Read(f, hdr)
    ELSE CompressedMap5Read(f, hdr)

HeaderRead(f, bld) ==
    IF f.truncated
    THEN [res |-> "UnexpectedEof", header |-> NoHeader, map |-> <<>>]
    ELSE IF f.magic # MAGIC
    THEN [res |-> "InvalidData", header |-> NoHeader, map |-> <<>>]
    ELSE IF f.version = V5
    THEN LET h == read_header_v5(f, bld)
             m == MapRead(f, h.header)
         IN  IF h.res # "ok"
             THEN [res |-> h.res, header |-> NoHeader, map |-> <<>>]
             ELSE IF m.res # "ok"
             THEN [res |-> m.res, header |-> NoHeader, map |-> <<>>]
             ELSE [res |-> "ok", header |-> h.header, map |-> m.map]
    ELSE [res |-> "InvalidData", header |-> NoHeader, map |-> <<>>]

\* CdFlac::new: assert!(hunkbytes % cd::FRAME_SIZE == 0)
CdFlacNew(hunkbytes) == IF hunkbytes % FRAME_SIZE = 0 THEN "CdFlac" ELSE "panic"

\* decompress::create: the codec of one slot.  Lzma::new is taken to get its
\* decoder from lzma_create.
create(header, tag) ==
    IF tag = 0 THEN "None"
    ELSE IF tag = CHD_CODEC_HUFF THEN "Huffman"
    ELSE IF tag = CHD_CODEC_FLAC THEN "Flac"
    ELSE IF tag = CHD_CODEC_LZMA THEN "Lzma"
    ELSE IF tag = CHD_CODEC_ZLIB THEN "Inflate"
    ELSE IF tag = CHD_CODEC_CD_FLAC THEN CdFlacNew(header.hunkbytes)
    ELSE IF tag = CHD_CODEC_CD_LZMA THEN "CdLzma"
    ELSE IF tag = CHD_CODEC_CD_ZLIB THEN "CdZlib"
    ELSE "Unknown"

\* decompress::init: one codec slot per header tag
init(header) == [k \in 1..4 |-> create(header, header.compressors[k])]

\* Chd::open once the header and the map are read
Opened(f, r, slots) ==
    IF \E k \in 1..4 : slots[k] = "panic" THEN [res |-> "panic", chd |-> <<>>]
    ELSE [res |-> "ok",
          chd |-> << [header |-> r.header,
                      filesize |-> Len(f.data),
                      pos |-> 0,
                      io |-> [data |-> f.data, eofprefix |-> f.eofprefix],
                      map |-> r.map,
                      decompress |-> slots,
                      cache |-> [i \in 1..r.header.hunkbytes |-> 0],
                      cachehunk |-> USIZE_MAX,
                      parent |-> <<>>] >>]

\* Chd::open
Open(f, bld) ==
    LET r == HeaderRead(f, bld)
    IN  IF r.res # "ok" THEN [res |-> r.res, chd |-> <<>>]
        ELSE Opened(f, r, init(r.header))

-----------------------------------------------------------------------------
(* Positional read, codecs, map lookup *)

\* ReadAt::read_at: seek to offset, then read_exact.  When the source ends
\* early read_exact fails and leaves the buffer unspecified: a source with
\* io.eofprefix (a File) delivers the bytes it has before failing, another
\* one (a Cursor) leaves the buffer as it was.
ReadAt(io, offset, buf) ==
    LET n == Len(buf)
        have == IF offset >= Len(io.data) THEN 0 ELSE Len(io.data) - offset
    IN  IF offset + n <= Len(io.data)
        THEN [res |-> "ok", buf |-> SubSeq(io.data, offset + 1, offset + n)]
        ELSE [res |-> "UnexpectedEof",
              buf |-> IF io.eofprefix
                      THEN [i \in 1..n |-> IF i <= have THEN io.data[offset + i]
                                           ELSE buf[i]]
                      ELSE buf]

\* impl Decompress for Huffman
HuffmanDecompress(src, dest) ==
    IF ~import_tree_huffman(src)
    THEN [res |-> "InvalidData", buf |-> dest]
    ELSE [res |-> IF overflow(src, Len(dest)) THEN "InvalidData" ELSE "ok",
          buf |-> [i \in 1..Len(dest) |-> decode_one(src, i)]]

\* impl Decompress for Unknown
UnknownDecompress(src, dest) == [res |-> "InvalidData", buf |-> dest]

\* buf with piece written over it from index at on
Splice(buf, at, piece) ==
    [i \in 1..Len(buf) |-> IF i > at /\ i <= at + Len(piece) THEN piece[i - at]
                           ELSE buf[i]]

\* The inflater behind Inflate (crate inflate) and the decoder behind Lzma
\* (src/lzma.rs).  A compressed stream is a marker, 1 when the stream is well
\* formed, the number n of bytes it expands to, and those n bytes; what
\* follows them is not part of the stream.
stream_ok(src) == Len(src) >= 2 /\ src[1] = 1 /\ Len(src) >= 2 + src[2]
stream_bytes(src) == SubSeq(src, 3, 2 + src[2])
stream_rest(src) == Len(src) - (2 + src[2])

\* impl Decompress for Inflate: the expanded bytes are written to the front
\* of dest; the write fails when dest cannot take them all, and the count it
\* returns is dropped
InflateDecompress(src, dest) ==
    IF ~stream_ok(src) THEN [res |-> "InvalidData", buf |-> dest]
    ELSE IF src[2] > Len(dest)
    THEN [res |-> "InvalidData", buf |-> Splice(dest, 0, stream_bytes(src))]
    ELSE [res |-> "ok", buf |-> Splice(dest, 0, stream_bytes(src))]

\* impl Decompress for Lzma: lzma_decompress reports an error unless it
\* has filled dest from the whole of src
LzmaDecompress(src, dest) ==
    IF ~stream_ok(src) THEN [res |-> "InvalidData", buf |-> dest]
    ELSE IF src[2] # Len(dest) \/ stream_rest(src) > 0
    THEN [res |-> "InvalidData", buf |-> Splice(dest, 0, stream_bytes(src))]
    ELSE [res |-> "ok", buf |-> stream_bytes(src)]

\* ecc::generate (src/ecc.rs): the 276 bytes of P and Q parity at the end of
\* the sector are computed from the bytes between the sync and the parity
SYNC_NUM_BYTES == 12
SYNC_HEADER == <<0, 255, 255, 255, 255, 255, 255, 255, 255, 255, 255, 0>>
ECC_BYTES == 276
EccByte(sector, j) ==
    (sector[SYNC_NUM_BYTES + j] + 2 * sector[SYNC_NUM_BYTES + ECC_BYTES + j] + j) % 256
ecc_generate(sector) ==
    [k \in 1..Len(sector) |->
        IF k > MAX_SECTOR_DATA - ECC_BYTES /\ k <= MAX_SECTOR_DATA
        THEN EccByte(sector, k - (MAX_SECTOR_DATA - ECC_BYTES))
        ELSE sector[k]]

\* CdDecompress::construct
CdConstruct(kind, hunkbytes) ==
    [kind |-> kind, buffer |-> [k \in 1..hunkbytes |-> 0]]

\* self.base.decompress and self.subcode.decompress of CdDecompress<B, S>
CdBase(kind, src, dest) ==
    IF kind = "CdLzma" THEN LzmaDecompress(src, dest) ELSE InflateDecompress(src, dest)
CdSubcode(kind, src, dest) == InflateDecompress(src, dest)

\* The flag of frame i in the first bytes of src
CdFlag(src, i) == (src[(i \div 8) + 1] \div (2 ^ (i % 8))) % 2 = 1

\* One frame of the loop of CdDecompress::decompress: sector and subcode as
\* they lie in the buffer, then the sync pattern and the ECC where flagged
CdSector(buffer, i) == SubSeq(buffer, i * MAX_SECTOR_DATA + 1, (i + 1) * MAX_SECTOR_DATA)
CdFrame(flagged, buffer, subcode_start, i) ==
    (IF flagged
     THEN ecc_generate(Splice(CdSector(buffer, i), 0, SYNC_HEADER))
     ELSE CdSector(buffer, i))
    \o SubSeq(buffer, subcode_start + i * MAX_SUBCODE_DATA + 1,
              subcode_start + (i + 1) * MAX_SUBCODE_DATA)

\* The loop over the frames from frame i on: what dest holds from there
RECURSIVE CdFrames(_, _, _, _, _)
CdFrames(src, buffer, dest, frames, i) ==
    IF i >= frames THEN SubSeq(dest, frames * FRAME_SIZE + 1, Len(dest))
    ELSE CdFrame(CdFlag(src, i), buffer, frames * MAX_SECTOR_DATA, i)
         \o CdFrames(src, buffer, dest, frames, i + 1)

\* CdDecompress::decompress after the subcode is decoded into the buffer
CdReassemble(c, src, dest, frames, buffer, sub) ==
    IF sub.res # "ok"
    THEN [res |-> sub.res, buf |-> dest,
          codec |-> [c EXCEPT !.buffer = Splice(buffer, frames * MAX_SECTOR_DATA, sub.buf)]]
    ELSE [res |-> "ok",
          buf |-> CdFrames(src, Splice(buffer, frames * MAX_SECTOR_DATA, sub.buf),
                           dest, frames, 0),
          codec |-> [c EXCEPT !.buffer = Splice(buffer, frames * MAX_SECTOR_DATA, sub.buf)]]

\* CdDecompress::decompress after the data is decoded into the buffer
CdInner(c, src, dest, frames, compr_end, base) ==
    IF base.res # "ok"
    THEN [res |-> base.res, buf |-> dest,
          codec |-> [c EXCEPT !.buffer = Splice(c.buffer, 0, base.buf)]]
    ELSE CdReassemble(c, src, dest, frames, Splice(c.buffer, 0, base.buf),
                      CdSubcode(c.kind, SubSeq(src, compr_end + 1, Len(src)),
                                SubSeq(c.buffer, frames * MAX_SECTOR_DATA + 1,
                                       frames * FRAME_SIZE)))

\* CdDecompress::decompress once the length field is read: the slices of
\* src panic when src is too short for them; so does the slice of the
\* buffer when the codec was made for smaller hunks
CdSplit(c, src, dest, frames, compr_start, compr_len) ==
    IF compr_start + compr_len > Len(src) \/ frames * FRAME_SIZE > Len(c.buffer)
    THEN [res |-> "panic", buf |-> dest, codec |-> c]
    ELSE CdInner(c, src, dest, frames, compr_start + compr_len,
                 CdBase(c.kind, SubSeq(src, compr_start + 1, compr_start + compr_len),
                        SubSeq(c.buffer, 1, frames * MAX_SECTOR_DATA)))

\* impl Decompress for CdDecompress<B, S>
CdDecompress(c, src, dest) ==
    LET frames == Len(dest) \div FRAME_SIZE
        ecc_bytes == (frames + 7) \div 8
    IN  IF Len(dest) <= 65535
        THEN IF Len(src) < ecc_bytes + 2 THEN [res |-> "panic", buf |-> dest, codec |-> c]
             ELSE CdSplit(c, src, dest, frames, ecc_bytes + 2,
                          src[ecc_bytes + 1] * 256 + src[ecc_bytes + 2])
        ELSE IF Len(src) < ecc_bytes + 3 THEN [res |-> "panic", buf |-> dest, codec |-> c]
             ELSE CdSplit(c, src, dest, frames, ecc_bytes + 3,
                          src[ecc_bytes + 1] * 65536 + src[ecc_bytes + 2] * 256
                          + src[ecc_bytes + 3])

\* impl Decompress for Flac: src[0] panics on an empty src; a first byte
\* other than 'L' and 'B' is an error.  The hunks here are shorter than one
\* stereo sample (num_frames = 0), for which every outcome of the frame
\* reader is turned into an error: a failed or absent frame by
\* flac_decompress, a decoded block, whose duration is at least 1, by the
\* comparison with num_frames.
SAMPLE_SIZE == 4
FlacDecompress(src, dest) ==
    IF Len(src) = 0 THEN [res |-> "panic", buf |-> dest]
    ELSE IF src[1] \notin {76, 66} THEN [res |-> "InvalidData", buf |-> dest]
    ELSE CASE Len(dest) \div SAMPLE_SIZE = 0 -> [res |-> "InvalidData", buf |-> dest]

\* d.decompress(&compbuf, buf) of the codecs that the files here run
Decompress(codec, src, dest) ==
    CASE codec = "Huffman" -> HuffmanDecompress(src, dest)
      [] codec = "Flac" -> FlacDecompress(src, dest)
      [] codec = "Unknown" -> UnknownDecompress(src, dest)

\* decompress_hunk that always runs the codec of slot 0
decompress_hunk_Slot0(c, m, dindex, buf) ==
    IF c.decompress[1] = "None"
    THEN [res |-> "InvalidData", buf |-> buf]
    ELSE LET rd == ReadAt(c.io, m.offset, [i \in 1..m.length |-> 0])
         IN  IF rd.res # "ok" THEN [res |-> rd.res, buf |-> buf]
             ELSE Decompress(c.decompress[1], rd.buf, buf)

\* decompress_hunk
decompress_hunk(c, m, dindex, buf) ==
    IF c.decompress[dindex + 1] = "None"
    THEN [res |-> "InvalidData", buf |-> buf]
    ELSE LET rd == ReadAt(c.io, m.offset, [i \in 1..m.length |-> 0])
         IN  IF rd.res # "ok" THEN [res |-> rd.res, buf |-> buf]
             ELSE Decompress(c.decompress[dindex + 1], rd.buf, buf)

\* Map::locate of UncompressedMap5 and CompressedMap5; indexing the map
\* vector past its end panics
Locate(c, hunknum) ==
    IF hunknum < 0 \/ hunknum >= Len(c.map.entries)
    THEN [panic |-> TRUE, compression |-> 0, offset |-> 0, length |-> 0]
    ELSE IF c.map.compressed
    THEN [panic |-> FALSE,
          compression |-> c.map.entries[hunknum + 1].compression,
          offset |-> c.map.entries[hunknum + 1].offset,
          length |-> c.map.entries[hunknum + 1].complength]
    ELSE [panic |-> FALSE,
          compression |-> COMPRESSION_NONE,
          offset |-> c.map.entries[hunknum + 1] * c.header.hunkbytes,
          length |-> c.header.hunkbytes]

\* map.validate that accepts any checksum
MapValidate_NoCrc(c, hunknum, buf) ==
    IF ~c.map.compressed THEN "InvalidData" ELSE "ok"

\* Map::validate of UncompressedMap5 and CompressedMap5
MapValidate(c, hunknum, buf) ==
    IF ~c.map.compressed THEN "InvalidData"
    ELSE IF crc16(buf) = c.map.entries[hunknum + 1].crc THEN "ok"
    ELSE "InvalidData"

-----------------------------------------------------------------------------
(* Seek *)

\* impl Seek for Chd: sf = [whence, x], x a u64 for Start, an i64 otherwise
SeekNewpos(c, sf) ==
    LET size == AsI64(c.header.size)
        sum == IF sf.whence = "Current" THEN WAdd(WInt(c.pos), sf.x)
               ELSE WAdd(size, sf.x)
    IN  IF sf.whence = "Start" THEN [ok |-> TRUE, newpos |-> AsI64(sf.x)]
        ELSE [ok |-> InI64(sum), newpos |-> sum]

SeekInRange(c, newpos) ==
    ~ (WLt(newpos, WInt(0)) \/ WLt(AsI64(c.header.size), newpos))

Seek(c, sf) ==
    LET t == SeekNewpos(c, sf)
    IN  IF ~t.ok THEN [res |-> "InvalidData", ret |-> 0, chd |-> c]
        ELSE IF ~SeekInRange(c, t.newpos)
        THEN [res |-> "InvalidData", ret |-> 0, chd |-> c]
        ELSE [res |-> "ok", ret |-> t.newpos.r,
              chd |-> [c EXCEPT !.pos = t.newpos.r]]

-----------------------------------------------------------------------------
(* read_hunk and read.  Each returns the caller's buffer as the call left  *)
(* it, also when the call failed: the code writes into it in place.        *)


RECURSIVE ReadHunk(_, _, _, _, _)
RECURSIVE Read(_, _, _)
RECURSIVE ReadLoop(_, _, _, _, _, _, _, _)

\* What a decode that does not involve the parent hands back
Decoded(r, parent) == [res |-> r.res, buf |-> r.buf, parent |-> parent, links |-> 0]

\* One more nested call made through a SELF entry
Linked(r) == [r EXCEPT !.links = @ + 1]

\* The COMPRESSION_PARENT arm of read_hunk_at after deref_parent: sk is the
\* outcome of parent_chd.seek; then parent_chd.read, whose count is dropped
\* (a short read is accepted)
ParentRead(rd) == [res |-> rd.res, buf |-> rd.buf, parent |-> <<rd.chd>>, links |-> 0]
ParentSeek(c, buf, bld, sk) ==
    IF sk.res # "ok"
    THEN [res |-> sk.res, buf |-> buf, parent |-> c.parent, links |-> 0]
    ELSE ParentRead(Read(sk.chd, buf, bld))

\* deref_parent, then the seek of the parent to offset * unitbytes
ReadParent(c, offset, buf, bld) ==
    IF c.parent = <<>>
    THEN [res |-> "InvalidData", buf |-> buf, parent |-> c.parent, links |-> 0]
    ELSE ParentSeek(c, buf, bld,
                    Seek(c.parent[1],
                         [whence |-> "Start",
                          x |-> WInt(offset * c.parent[1].header.unitbytes)]))

\* read_hunk_at once the map entry m is located
ReadHunkAt(c, m, buf, bld, depth) ==
    IF m.panic
    THEN [res |-> "panic", buf |-> buf, parent |-> c.parent, links |-> 0]
    ELSE IF m.compression = COMPRESSION_NONE
    THEN Decoded(ReadAt(c.io, m.offset, buf), c.parent)
    ELSE IF m.compression = COMPRESSION_SELF
    THEN Linked(ReadHunk(c, m.offset, buf, bld, depth + 1))
    ELSE IF m.compression = COMPRESSION_PARENT
    THEN ReadParent(c, m.offset, buf, bld)
    ELSE IF m.compression >= COMPRESSION_TYPE_0
            /\ m.compression <= COMPRESSION_TYPE_3
    THEN Decoded(decompress_hunk(c, m, m.compression - COMPRESSION_TYPE_0, buf),
                 c.parent)
    ELSE [res |-> "InvalidData", buf |-> buf, parent |-> c.parent, links |-> 0]

\* read_hunk that gives up after one SELF link
ReadHunk_OneLink(c, hunknum, buf, bld, depth) ==
    IF Len(buf) # c.header.hunkbytes
    THEN [res |-> "panic", buf |-> buf, parent |-> c.parent, links |-> 0]
    ELSE IF depth > 1
    THEN [res |-> "diverges", buf |-> buf, parent |-> c.parent, links |-> 0]
    ELSE ReadHunkAt(c, Locate(c, hunknum), buf, bld, depth)

\* read_hunk (the free function).  depth counts the nested calls made
\* through SELF entries.  A call that has followed more links than the map
\* has entries is inside a cycle of SELF entries and never returns: the
\* recursion goes on until the stack is exhausted, or for ever where the
\* build turns the call into a jump ("diverges").
ReadHunk(c, hunknum, buf, bld, depth) ==
    IF Len(buf) # c.header.hunkbytes
    THEN [res |-> "panic", buf |-> buf, parent |-> c.parent, links |-> 0]
    ELSE IF depth > Len(c.map.entries)
    THEN [res |-> "diverges", buf |-> buf, parent |-> c.parent, links |-> 0]
    ELSE ReadHunkAt(c, Locate(c, hunknum), buf, bld, depth)

\* read with a record of the hunks it decodes, in order, and of where each
\* is decoded into
Logged(decoded, entry, r) ==
    IF decoded THEN [r EXCEPT !.log = <<entry>> \o @] ELSE r

\* The full-hunk arm of the loop of read: direct is the outcome of read_hunk
\* into the head of dest
ReadDirect(c, buf, bld, curhunk, first_hunk, last_hunk, done, destlen, len, direct) ==
    Logged(TRUE, [hunk |-> curhunk.r, into |-> "dest"],
           IF direct.res # "ok"
           THEN [res |-> direct.res, n |-> 0, buf |-> Splice(buf, done, direct.buf),
                 chd |-> [c EXCEPT !.parent = direct.parent], log |-> <<>>]
           ELSE ReadLoop([c EXCEPT !.parent = direct.parent],
                         Splice(buf, done, direct.buf), bld,
                         WAdd(curhunk, WInt(1)), first_hunk, last_hunk,
                         done + len, destlen))

\* The cache arm: fill is the outcome of read_hunk into self.cache (the
\* cache as it is when curhunk is the cached hunk).  cachehunk is assigned
\* only after a successful fill, the buffer is written either way.
ReadCached(c, buf, bld, curhunk, first_hunk, last_hunk, done, destlen, startoffs, len, fill) ==
    Logged(curhunk # c.cachehunk, [hunk |-> curhunk.r, into |-> "cache"],
           IF fill.res # "ok"
           THEN [res |-> fill.res, n |-> 0, buf |-> buf,
                 chd |-> [c EXCEPT !.cache = fill.buf, !.parent = fill.parent],
                 log |-> <<>>]
           ELSE ReadLoop([c EXCEPT !.cache = fill.buf, !.parent = fill.parent,
                                   !.cachehunk = curhunk],
                         Splice(buf, done, SubSeq(fill.buf, startoffs + 1, startoffs + len)),
                         bld, WAdd(curhunk, WInt(1)), first_hunk, last_hunk,
                         done + len, destlen))

\* the body of the loop without the arm that decodes into dest
ReadStep_NoDirect(c, buf, bld, curhunk, first_hunk, last_hunk, done, destlen, startoffs, endoffs, plus1, length) ==
    IF plus1.panic \/ length.panic
    THEN [res |-> "panic", n |-> 0, buf |-> buf, chd |-> c, log |-> <<>>]
    ELSE IF length.v.k # 0 \/ length.v.r > destlen - done      \* split_at_mut
    THEN [res |-> "panic", n |-> 0, buf |-> buf, chd |-> c, log |-> <<>>]
    ELSE ReadCached(c, buf, bld, curhunk, first_hunk, last_hunk, done, destlen,
                    startoffs, length.v.r,
                    IF curhunk # c.cachehunk
                    THEN ReadHunk(c, curhunk.r, c.cache, bld, 0)
                    ELSE [res |-> "ok", buf |-> c.cache, parent |-> c.parent])

\* The body of the loop for curhunk, once endoffs + 1 (plus1) and
\* length = endoffs + 1 - startoffs are computed as usize arithmetic
ReadStep(c, buf, bld, curhunk, first_hunk, last_hunk, done, destlen, startoffs, endoffs, plus1, length) ==
    IF plus1.panic \/ length.panic
    THEN [res |-> "panic", n |-> 0, buf |-> buf, chd |-> c, log |-> <<>>]
    ELSE IF length.v.k # 0 \/ length.v.r > destlen - done      \* split_at_mut
    THEN [res |-> "panic", n |-> 0, buf |-> buf, chd |-> c, log |-> <<>>]
    ELSE IF startoffs = 0 /\ endoffs = WInt(c.header.hunkbytes - 1)
            /\ curhunk # c.cachehunk
    THEN ReadDirect(c, buf, bld, curhunk, first_hunk, last_hunk, done, destlen,
                    length.v.r,
                    ReadHunk(c, curhunk.r,
                             SubSeq(buf, done + 1, done + length.v.r), bld, 0))
    ELSE ReadCached(c, buf, bld, curhunk, first_hunk, last_hunk, done, destlen,
                    startoffs, length.v.r,
                    IF curhunk # c.cachehunk
                    THEN ReadHunk(c, curhunk.r, c.cache, bld, 0)
                    ELSE [res |-> "ok", buf |-> c.cache, parent |-> c.parent])

ReadBounds(c, buf, bld, curhunk, first_hunk, last_hunk, done, destlen, startoffs, endoffs, plus1) ==
    ReadStep(c, buf, bld, curhunk, first_hunk, last_hunk, done, destlen,
             startoffs, endoffs, plus1,
             UArith(WSub(plus1.v, WInt(startoffs)), bld))

\* One iteration of the `for curhunk in first_hunk..=last_hunk` loop of
\* read, followed by the rest of the loop.  done is the number of bytes of
\* dest already split off, destlen the clipped length of dest.
ReadLoop(c, buf, bld, curhunk, first_hunk, last_hunk, done, destlen) ==
    LET hunkbytes == c.header.hunkbytes
        lastbyte == c.pos + destlen - 1
        startoffs == IF curhunk = first_hunk THEN TruncRem(c.pos, hunkbytes) ELSE 0
        endoffs == IF curhunk = last_hunk
                   THEN AsU64(WInt(TruncRem(lastbyte, hunkbytes)))
                   ELSE WInt(hunkbytes - 1)
    IN  IF WLt(last_hunk, curhunk)
        THEN [res |-> "ok", n |-> destlen, buf |-> buf,
              chd |-> [c EXCEPT !.pos = c.pos + destlen], log |-> <<>>]
        ELSE ReadBounds(c, buf, bld, curhunk, first_hunk, last_hunk, done, destlen,
                        startoffs, endoffs, UArith(WAdd(endoffs, WInt(1)), bld))

\* impl Read for Chd, after hasbytes = size - pos
ReadClipped(c, buf, bld, hasbytes, destlen) ==
    IF hasbytes.panic THEN [res |-> "panic", n |-> 0, buf |-> buf, chd |-> c, log |-> <<>>]
    ELSE IF hasbytes.v = WInt(0)
    THEN [res |-> "ok", n |-> 0, buf |-> buf, chd |-> c, log |-> <<>>]
    ELSE ReadLoop(c, buf, bld,
                  AsU64(WInt(TruncDiv(c.pos, c.header.hunkbytes))),
                  AsU64(WInt(TruncDiv(c.pos, c.header.hunkbytes))),
                  AsU64(WInt(TruncDiv(c.pos + destlen - 1, c.header.hunkbytes))),
                  0, destlen)

ReadHas(c, buf, bld, hasbytes) ==
    ReadClipped(c, buf, bld, hasbytes,
                IF WLt(hasbytes.v, WInt(Len(buf))) THEN hasbytes.v.r ELSE Len(buf))

\* impl Read for Chd
Read(c, buf, bld) ==
    ReadHas(c, buf, bld, UArith(WSub(c.header.size, AsU64(WInt(c.pos))), bld))

\* Chd::read_hunk (the method)
ChdReadHunk(c, hunknum, buf, bld) == ReadHunk(c, hunknum, buf, bld, 0)

-----------------------------------------------------------------------------
(* set_parent, validate_hunk, validate *)

\* set_parent without the sha1 comparison
SetParent_NoCheck(c, parent) ==
    [res |-> "ok", chd |-> [c EXCEPT !.parent = <<parent>>]]

\* Chd::set_parent
SetParent(c, parent) ==
    IF parent.header.sha1 # c.header.parentsha1
    THEN [res |-> "InvalidData", chd |-> c]
    ELSE [res |-> "ok", chd |-> [c EXCEPT !.parent = <<parent>>]]

\* The last arm of validate_hunk: rd is the outcome of read_hunk into a
\* scratch buffer, then map.validate
ValidateDecoded(c, hunknum, rd) ==
    IF rd.res # "ok"
    THEN [res |-> rd.res, decoded |-> <<hunknum>>, links |-> 0]
    ELSE [res |-> MapValidate(c, hunknum, rd.buf), decoded |-> <<hunknum>>, links |-> 0]

\* Chd::validate_hunk.  decoded lists the hunks read_hunk was called for.
RECURSIVE ValidateHunk(_, _, _, _)
\* validate_hunk without the COMPRESSION_PARENT arm
ValidateLocated_NoParentArm(c, hunknum, bld, depth, m) ==
    IF m.panic THEN [res |-> "panic", decoded |-> <<>>, links |-> 0]
    ELSE IF m.compression = COMPRESSION_SELF
    THEN Linked(ValidateHunk(c, m.offset, bld, depth + 1))
    ELSE ValidateDecoded(c, hunknum,
             ChdReadHunk(c, hunknum, [i \in 1..c.header.hunkbytes |-> 0], bld))

ValidateLocated(c, hunknum, bld, depth, m) ==
    IF m.panic THEN [res |-> "panic", decoded |-> <<>>, links |-> 0]
    ELSE IF m.compression = COMPRESSION_SELF
    THEN Linked(ValidateHunk(c, m.offset, bld, depth + 1))
    ELSE IF m.compression = COMPRESSION_PARENT
    THEN [res |-> "InvalidInput", decoded |-> <<>>, links |-> 0]
    ELSE ValidateDecoded(c, hunknum,
             ChdReadHunk(c, hunknum, [i \in 1..c.header.hunkbytes |-> 0], bld))

ValidateHunk(c, hunknum, bld, depth) ==
    IF ~ (hunknum < c.header.hunkcount)
    THEN [res |-> "InvalidInput", decoded |-> <<>>, links |-> 0]
    ELSE IF depth > Len(c.map.entries)
    THEN [res |-> "diverges", decoded |-> <<>>, links |-> 0]
    ELSE ValidateLocated(c, hunknum, bld, depth, Locate(c, hunknum))

\* Chd::validate.  calls lists the hunks validate_hunk was called for, in
\* the order of the calls, decoded the hunks that were decoded.
RECURSIVE ValidateFrom(_, _, _, _, _)
\* validate that remembers the first error and goes on to the last hunk
ValidateNext_KeepGoing(c, i, bld, calls, decoded, v) ==
    IF v.res # "ok"
    THEN [res |-> v.res,
          calls |-> ValidateFrom(c, i + 1, bld, Append(calls, i),
                                 decoded \o v.decoded).calls,
          decoded |-> ValidateFrom(c, i + 1, bld, Append(calls, i),
                                   decoded \o v.decoded).decoded]
    ELSE ValidateFrom(c, i + 1, bld, Append(calls, i), decoded \o v.decoded)

ValidateNext(c, i, bld, calls, decoded, v) ==
    IF v.res # "ok"
    THEN [res |-> v.res, calls |-> Append(calls, i), decoded |-> decoded \o v.decoded]
    ELSE ValidateFrom(c, i + 1, bld, Append(calls, i), decoded \o v.decoded)

ValidateFrom(c, i, bld, calls, decoded) ==
    IF i >= c.header.hunkcount
    THEN [res |-> "ok", calls |-> calls, decoded |-> decoded]
    ELSE ValidateNext(c, i, bld, calls, decoded, ValidateHunk(c, i, bld, 0))

Validate(c, bld) == ValidateFrom(c, 0, bld, <<>>, <<>>)

-----------------------------------------------------------------------------
(* The files the reader is run on *)

MaxRead == 3            \* read is called with buffers of 0..MaxRead bytes
Fill == 1               \* the byte the caller's buffers hold before a call

MkFile(compressors, size, hunkbytes, unitbytes, sha1, parentsha1, map, data) ==
    [magic |-> MAGIC, length |-> HEADER_LENGTH, version |-> V5,
     compressors |-> compressors, size |-> size, hunkbytes |-> hunkbytes,
     unitbytes |-> unitbytes, sha1 |-> sha1, parentsha1 |-> parentsha1,
     truncated |-> FALSE, mapok |-> TRUE, map |-> map, data |-> data,
     eofprefix |-> TRUE]

HuffOnly == <<CHD_CODEC_HUFF, 0, 0, 0>>

\* Hunk storage of the child: a Huffman stream (tree byte, two symbols) at
\* offset 0, one that ends early at offset 3 and a full one at offset 5.
\* The parent's second hunk, 255 255, has CRC-16 0.
ChildData == <<1, 65, 66, 1, 68, 1, 67, 68>>
ParentData == <<1, 81, 82, 1, 255, 255, 85>>

G0 == Entry(0, 3, 0, 19316)                \* decodes to 65 66, crc right
Bad == Entry(0, 2, 3, 56327)               \* stream ends early: 68 0, error
G1 == Entry(0, 3, 5, 19920)                \* decodes to 67 68, crc right
Raw(offset) == Entry(COMPRESSION_NONE, 2, offset, 7439)     \* crc wrong
SelfRef(hunk) == Entry(COMPRESSION_SELF, 0, hunk, 0)
InParent(unit) == Entry(COMPRESSION_PARENT, 0, unit, 0)

\* The stream that decompresses to the given entries: the tree token, one
\* symbol per hunk, then the bit fields of each hunk in turn
RECURSIVE PackFields(_, _)
PackFields(entries, i) ==
    IF i > Len(entries) THEN <<>>
    ELSE (IF entries[i].compression <= COMPRESSION_TYPE_3
          THEN <<entries[i].complength, entries[i].crc>>
          ELSE IF entries[i].compression = COMPRESSION_NONE
          THEN <<entries[i].crc>>
          ELSE <<entries[i].offset>>) \o PackFields(entries, i + 1)
Packed(firstoffs, crc, entries) ==
    [hdr |-> [firstoffs |-> firstoffs, crc |-> crc,
              lengthbits |-> 8, hunkbits |-> 8, parentbits |-> 8],
     comprmap |-> <<1>> \o [i \in 1..Len(entries) |-> entries[i].compression]
                       \o PackFields(entries, 1)]
NoHunks == Packed(0, 65535, <<>>)

\* Three hunks of two bytes, the last one half used
ChildMaps ==
    { Packed(0, 20730, <<G0, Bad, G1>>),
      Packed(0, 51749, <<G0, SelfRef(0), SelfRef(1)>>),
      Packed(0, 38634, <<G0, SelfRef(0), InParent(2)>>),
      Packed(5, 57893, <<Raw(5), SelfRef(0), Raw(7)>>),
      Packed(0, 36699, <<InParent(3), InParent(2), SelfRef(1)>>),
      Packed(0, 58579, <<InParent(5), SelfRef(0), SelfRef(1)>>) }
ChildFiles ==
    { MkFile(HuffOnly, WInt(5), 2, 1, 7, 9, m, ChildData) : m \in ChildMaps }

\* The same image behind a source whose failed read_exact leaves the buffer
\* untouched
CursorFile ==
    [MkFile(HuffOnly, WInt(5), 2, 1, 7, 9,
            Packed(5, 57893, <<Raw(5), SelfRef(0), Raw(7)>>), ChildData)
       EXCEPT !.eofprefix = FALSE]

\* One-byte hunks; an uncompressed map; a header whose logical size is
\* 2^64 - 1, for which the hunk count computation leaves the u64 range
SmallFile ==
    MkFile(HuffOnly, WInt(2), 1, 1, 7, 9,
           Packed(0, 37072, <<Entry(0, 2, 0, 47381), SelfRef(0)>>), ChildData)
PlainFile ==
    MkFile(<<0, 0, 0, 0>>, WInt(3), 2, 1, 7, 9, <<0, 2>>, ChildData)
HugeFile ==
    MkFile(HuffOnly, U64_MAX, 2, 1, 7, 9, NoHunks, ChildData)

\* The parent the child was made from (sha1 9), whose last hunk is stored
\* past the end of the file, and an unrelated file (sha1 8)
ParentFile ==
    MkFile(HuffOnly, WInt(5), 2, 1, 9, 0,
           Packed(0, 18229, <<Entry(0, 3, 0, 23094), Entry(0, 3, 3, 0), Raw(6)>>),
           ParentData)
WrongFile ==
    MkFile(HuffOnly, WInt(3), 2, 1, 8, 0,
           Packed(0, 45555, <<Entry(0, 3, 0, 23094), Entry(0, 3, 3, 0)>>),
           ParentData)
ParentFiles == {ParentFile, WrongFile}

\* Two hunks of two bytes behind every kind of codec slot: a known codec,
\* another known codec, no codec, and a tag that create does not know
UnknownTag == make_tag(<<97, 98, 99, 100>>)            \* 'a','b','c','d'
CodecSlots ==
    { <<CHD_CODEC_HUFF, CHD_CODEC_FLAC, 0, UnknownTag>>,
      <<CHD_CODEC_FLAC, CHD_CODEC_HUFF, UnknownTag, 0>>,
      <<UnknownTag, 0, CHD_CODEC_FLAC, CHD_CODEC_HUFF>> }
CodecMaps ==
    { <<Entry(0, 3, 0, 19316), Entry(1, 3, 3, 19920)>>,
      <<Entry(2, 0, 0, 0), Entry(3, 3, 0, 19316)>> }
CodecFiles ==
    { MkFile(slots, WInt(4), 2, 1, 7, 9, Packed(0, MapCrc(m), m),
             <<1, 65, 66, 1, 67, 68>>) :
        slots \in CodecSlots, m \in CodecMaps }

\* SELF entries that name a hunk the file does not have, and SELF entries
\* that name each other
StrayMaps ==
    { <<G0, SelfRef(3), SelfRef(1)>>,
      <<G0, SelfRef(2), SelfRef(1)>> }
StrayFiles ==
    { MkFile(HuffOnly, WInt(5), 2, 1, 7, 9, Packed(0, MapCrc(m), m), ChildData) :
        m \in StrayMaps }

Files ==
    ChildFiles \cup CodecFiles \cup StrayFiles
    \cup {CursorFile, SmallFile, PlainFile, HugeFile}

\* Headers around every limit that open checks, each on an empty image,
\* with codec tags of every kind that create tells apart
HeaderSlots ==
    { HuffOnly,
      <<CHD_CODEC_CD_FLAC, 0, 0, 0>>,
      <<CHD_CODEC_ZLIB, CHD_CODEC_LZMA, CHD_CODEC_CD_LZMA, CHD_CODEC_CD_ZLIB>>,
      <<UnknownTag, CHD_CODEC_FLAC, 0, 0>> }
HeaderFiles ==
    { [MkFile(slots, WInt(0), hb, ub, 7, 9, NoHunks, <<>>)
         EXCEPT !.magic = mg, !.length = ln, !.version = vs, !.truncated = tr] :
        slots \in HeaderSlots,
        mg \in {MAGIC, <<77, 67, 111, 109, 112, 114, 72, 67>>},
        ln \in {HEADER_LENGTH - 1, HEADER_LENGTH, HEADER_LENGTH + 1},
        vs \in {V5 - 1, V5, V5 + 1},
        hb \in {0, 1, 2, 3, FRAME_SIZE, MAX_HUNKBYTES, MAX_HUNKBYTES + 1},
        ub \in {0, 1, 2},
        tr \in BOOLEAN }

\* Compressed maps of 0, 1, 4 and 21 hunks: every stream that starts with
\* MapPrefix tokens of MapSymbols and goes on with MapTail, with the crc of
\* what it expands to in the map header, or that crc plus one
MapPrefix == 2
MapSymbols == {0} \cup (COMPRESSION_NONE..15)
MapTail == <<0, 5, 9, 3, 1, 2, 0, 1, 2, 3, 1>>
MapHunks == {0, 1, 4, 21}
MapHeader(firstoffs, crc) ==
    [firstoffs |-> firstoffs, crc |-> crc,
     lengthbits |-> 8, hunkbits |-> 8, parentbits |-> 8]
Expanded(hdr, src, p1) ==
    Pass2(hdr, MapHeader(0, 0), src, p1.types, 0, 0, 0, 0, p1.used, <<>>).entries
ExpandedCrc(hunkcount, src) ==
    MapCrc(Expanded([hunkcount |-> hunkcount, hunkbytes |-> 2, unitbytes |-> 1],
                            src, Pass1(src, hunkcount, 0, 0, 0, 0, <<>>)))
MapFile(hunkcount, src, nudge) ==
    MkFile(HuffOnly, WInt(2 * hunkcount), 2, 1, 7, 9,
           [hdr |-> MapHeader(0, (ExpandedCrc(hunkcount, src) + nudge) % 65536),
            comprmap |-> src],
           <<>>)
\* Maps of five hunks of types 0, NONE, SELF, 1, 2 whose length fields are
\* read with 3, 24, 25 and 31 bits, with and without a first offset; the
\* header's crc is the one of the map the stream expands to
LayoutBits == {3, 24, 25, 31}
LayoutLengths == {3, 16777219}
LayoutOffsets == {0, 5}
LayoutStream(len1, len2) == <<1, 0, 4, 5, 1, 2, len1, 7, 9, 0, len2, 11, 1, 13>>
LayoutHeader(firstoffs, lengthbits, crc) ==
    [firstoffs |-> firstoffs, crc |-> crc,
     lengthbits |-> lengthbits, hunkbits |-> 8, parentbits |-> 8]
LayoutCrc(hdr, maphdr, src, p1) ==
    MapCrc(Pass2(hdr, maphdr, src, p1.types, 0, maphdr.firstoffs, 0, 0, p1.used, <<>>).entries)
LayoutFile(firstoffs, lengthbits, src) ==
    MkFile(HuffOnly, WInt(10), 2, 1, 7, 9,
           [hdr |-> LayoutHeader(firstoffs, lengthbits,
                                 LayoutCrc([hunkcount |-> 5, hunkbytes |-> 2, unitbytes |-> 1],
                                           LayoutHeader(firstoffs, lengthbits, 0), src,
                                           Pass1(src, 5, 0, 0, 0, 0, <<>>))),
            comprmap |-> src],
           <<>>)
LayoutFiles ==
    { LayoutFile(fo, lb, LayoutStream(len1, len2)) :
        fo \in LayoutOffsets, lb \in LayoutBits,
        len1 \in LayoutLengths, len2 \in LayoutLengths }

MapFiles ==
    { MapFile(n, <<1>> \o pre \o MapTail, nudge) :
        n \in MapHunks, pre \in [1..MapPrefix -> MapSymbols], nudge \in {0, 1} }
    \cup { [MapFile(4, <<tree>> \o MapTail, 0) EXCEPT !.map.hdr.lengthbits = lb] :
             tree \in {0, 1}, lb \in {31, 32} }

\* A child of three hunks of two bytes whose map stream gives every hunk the
\* type of a base codec or PARENT_SELF, with a unit of one or two bytes, and
\* parents of the same size (sha1 9) whose unit is one or two bytes
UnitBytes == {1, 2}
UnitTypes == {COMPRESSION_TYPE_0, COMPRESSION_PARENT_SELF}
UnitChildData == <<1, 65, 66, 1, 67, 68, 1, 69, 70>>
UnitParentData == <<1, 81, 82, 1, 83, 84, 1, 85, 86>>
RECURSIVE UnitFields(_, _)
UnitFields(types, i) ==
    IF i > Len(types) THEN <<>>
    ELSE (IF types[i] = COMPRESSION_TYPE_0 THEN <<3, 0>> ELSE <<>>)
         \o UnitFields(types, i + 1)
UnitStream(types) == <<1>> \o types \o UnitFields(types, 1)
UnitChild(unitbytes, src) ==
    MkFile(HuffOnly, WInt(6), 2, unitbytes, 7, 9,
           [hdr |-> LayoutHeader(0, 8,
                                 LayoutCrc([hunkcount |-> 3, hunkbytes |-> 2,
                                            unitbytes |-> unitbytes],
                                           LayoutHeader(0, 8, 0), src,
                                           Pass1(src, 3, 0, 0, 0, 0, <<>>))),
            comprmap |-> src],
           UnitChildData)
UnitChildren ==
    { UnitChild(ub, UnitStream(types)) :
        ub \in UnitBytes, types \in [1..3 -> UnitTypes] }
UnitParentMap == <<Entry(0, 3, 0, 0), Entry(0, 3, 3, 0), Entry(0, 3, 6, 0)>>
UnitParent(unitbytes) ==
    MkFile(HuffOnly, WInt(6), 2, unitbytes, 9, 0,
           Packed(0, MapCrc(UnitParentMap), UnitParentMap), UnitParentData)
UnitParents == { UnitParent(ub) : ub \in UnitBytes }

Builds == {"debug", "release"}

-----------------------------------------------------------------------------
(* The state machine *)

Self == chd[1]
Aborted(res) == res \in {"panic", "diverges"}
Live == chd # <<>> /\ ~Aborted(last.res)

Call(op, res, arg, ret, out) ==
    [op |-> op, res |-> res, arg |-> arg, ret |-> ret, out |-> out, log |-> <<>>]

SeekArgs ==
    {[whence |-> "Start", x |-> x] :
        x \in {WInt(0), WInt(2), WInt(6), W(2, 0), U64_MAX}}
    \cup {[whence |-> "Current", x |-> x] :
        x \in {WInt(-1), WInt(1), I64_MAX, I64_MIN}}
    \cup {[whence |-> "End", x |-> x] :
        x \in {WInt(0), WInt(-1), WInt(1), I64_MAX, I64_MIN}}

\* The position a seek asks for, as an exact integer, and what the
\* contract of seek says about it
SeekTarget(c, sf) ==
    IF sf.whence = "Start" THEN sf.x
    ELSE IF sf.whence = "Current" THEN WAdd(WInt(c.pos), sf.x)
    ELSE WAdd(c.header.size, sf.x)
SeekCase(c, sf) ==
    LET t == SeekTarget(c, sf)
    IN  IF WLe(WInt(0), t) /\ WLe(t, c.header.size)
        THEN [case |-> "in", target |-> t]
        ELSE IF sf.whence # "Start" /\ ~InI64(t)
        THEN [case |-> "overflow", target |-> WInt(0)]
        ELSE [case |-> "out", target |-> WInt(0)]

Init ==
    /\ file \in Files
    /\ build \in Builds
    /\ chd = <<>>
    /\ last = Call("none", "ok", 0, 0, <<>>)

DoOpen ==
    /\ chd = <<>> /\ last.op = "none"
    /\ \E r \in {Open(file, build)} :
         /\ chd' = r.chd
         /\ last' = Call("open", r.res, 0, 0, <<>>)
    /\ UNCHANGED <<file, build>>

DoSetParent ==
    /\ Live
    /\ \E pf \in ParentFiles : \E p \in {Open(pf, build)} :
         /\ p.res = "ok"
         /\ \E r \in {SetParent(Self, p.chd[1])} :
              /\ chd' = <<r.chd>>
              /\ last' = Call("set_parent", r.res, pf.sha1, 0, <<>>)
    /\ UNCHANGED <<file, build>>

DoSeek ==
    /\ Live
    /\ \E sf \in SeekArgs : \E r \in {Seek(Self, sf)} :
         /\ chd' = <<r.chd>>
         /\ last' = Call("seek", r.res, SeekCase(Self, sf), r.ret, <<>>)
    /\ UNCHANGED <<file, build>>

DoRead ==
    /\ Live
    /\ \E n \in 0..MaxRead : \E r \in {Read(Self, [i \in 1..n |-> Fill], build)} :
         /\ chd' = <<r.chd>>
         /\ last' = [Call("read", r.res, n, r.n, r.buf) EXCEPT !.log = r.log]
    /\ UNCHANGED <<file, build>>

DoReadHunk ==
    /\ Live
    /\ \E i \in 0..(Self.header.hunkcount - 1) :
       \E r \in {ChdReadHunk(Self, i, [k \in 1..Self.header.hunkbytes |-> Fill], build)} :
         /\ chd' = <<[Self EXCEPT !.parent = r.parent]>>
         /\ last' = Call("read_hunk", r.res, i, r.links, r.buf)
    /\ UNCHANGED <<file, build>>

DoValidateHunk ==
    /\ Live
    /\ \E i \in 0..Self.header.hunkcount : \E r \in {ValidateHunk(Self, i, build, 0)} :
         /\ chd' = chd
         /\ last' = Call("validate_hunk", r.res, i, r.links, r.decoded)
    /\ UNCHANGED <<file, build>>

DoValidate ==
    /\ Live
    /\ \E r \in {Validate(Self, build)} :
         /\ chd' = chd
         /\ last' = Call("validate", r.res, 0, r.calls, r.decoded)
    /\ UNCHANGED <<file, build>>

Next ==
    \/ DoOpen
    \/ DoSetParent
    \/ DoSeek
    \/ DoRead
    \/ DoReadHunk
    \/ DoValidateHunk
    \/ DoValidate

Spec == Init /\ [][Next]_vars

\* open alone, on every header of HeaderFiles
InitOpen ==
    /\ file \in HeaderFiles
    /\ build \in Builds
    /\ chd = <<>>
    /\ last = Call("none", "ok", 0, 0, <<>>)

SpecOpen == InitOpen /\ [][DoOpen]_vars

\* open alone, on the maps of LayoutFiles
InitLayout ==
    /\ file \in LayoutFiles
    /\ build \in Builds
    /\ chd = <<>>
    /\ last = Call("none", "ok", 0, 0, <<>>)
SpecLayout == InitLayout /\ [][DoOpen]_vars

\* open, set_parent and read_hunk on the children of UnitChildren, with the
\* parents of UnitParents
InitUnit ==
    /\ file \in UnitChildren
    /\ build \in Builds
    /\ chd = <<>>
    /\ last = Call("none", "ok", 0, 0, <<>>)
DoSetUnitParent ==
    /\ Live
    /\ \E pf \in UnitParents : \E p \in {Open(pf, build)} :
         /\ p.res = "ok"
         /\ \E r \in {SetParent(Self, p.chd[1])} :
              /\ chd' = <<r.chd>>
              /\ last' = Call("set_parent", r.res, pf.sha1, 0, <<>>)
    /\ UNCHANGED <<file, build>>
NextUnit ==
    \/ DoOpen
    \/ DoSetUnitParent
    \/ DoReadHunk
SpecUnit == InitUnit /\ [][NextUnit]_vars

\* Inflate::decompress alone: streams that expand to 0..3 bytes, well formed
\* or not, cut short, complete, or followed by one more byte, into
\* destinations of 0..3 bytes
InflateLens == 0..3
InflateStream(marker, n, len) == <<marker, n>> \o [k \in 1..len |-> 64 + k]
InflateStreams ==
    { InflateStream(marker, n, len) :
        marker \in {0, 1}, n \in InflateLens, len \in 0..4 }
InitInflate ==
    /\ file \in [src : InflateStreams, dest : {[k \in 1..d |-> Fill] : d \in InflateLens}]
    /\ build \in Builds
    /\ chd = <<>>
    /\ last = Call("none", "ok", 0, 0, <<>>)
DoInflate ==
    /\ last.op = "none"
    /\ \E r \in {InflateDecompress(file.src, file.dest)} :
         last' = Call("decompress", r.res, 0, 0, r.buf)
    /\ UNCHANGED <<file, build, chd>>
SpecInflate == InitInflate /\ [][DoInflate]_vars

\* CdDecompress alone, for CD-ZLIB and CD-LZMA, on hunks of one frame, of one
\* frame and two more bytes, and of nine frames, with up to CdMaxCalls calls
\* on one codec.  A call is named by the flags of its frames, the seed of its
\* payload bytes, and the number of bytes its data and subcode streams
\* expand to: on one frame, full payloads with and without the flag, and
\* payloads one byte short, each with two seeds; on nine frames, full
\* payloads with the flag of the first or of the last frame.
CdMaxCalls == 2
CdKinds == {"CdZlib", "CdLzma"}
CdHunkBytes == {FRAME_SIZE, FRAME_SIZE + 2, 9 * FRAME_SIZE}
DataByte(seed, k) == (seed + k) % 256
SubByte(seed, k) == (seed + 3 * k + 7) % 256
CdCall(flags, seed, dn, sn) == [flags |-> flags, seed |-> seed, dn |-> dn, sn |-> sn]
CdCalls(frames) ==
    IF frames = 1
    THEN { CdCall(flags, seed, MAX_SECTOR_DATA, MAX_SUBCODE_DATA) :
             flags \in {0, 1}, seed \in {0, 100} }
         \cup { CdCall(0, seed, MAX_SECTOR_DATA - 1, MAX_SUBCODE_DATA) : seed \in {0, 100} }
         \cup { CdCall(1, seed, MAX_SECTOR_DATA, MAX_SUBCODE_DATA - 1) : seed \in {0, 100} }
    ELSE { CdCall(1, 0, frames * MAX_SECTOR_DATA, frames * MAX_SUBCODE_DATA),
           CdCall(2 ^ (frames - 1), 100, frames * MAX_SECTOR_DATA, frames * MAX_SUBCODE_DATA) }
CdSource(frames, a) ==
    [b \in 1..((frames + 7) \div 8) |-> (a.flags \div (256 ^ (b - 1))) % 256]
    \o <<(2 + a.dn) \div 256, (2 + a.dn) % 256>>
    \o <<1, a.dn>> \o [k \in 1..a.dn |-> DataByte(a.seed, k)]
    \o <<1, a.sn>> \o [k \in 1..a.sn |-> SubByte(a.seed, k)]
InitCd ==
    /\ file \in [kind : CdKinds, hunkbytes : CdHunkBytes]
    /\ build = "release"
    /\ chd = <<>>
    /\ last = Call("none", "ok", 0, 0, <<>>)
DoCdConstruct ==
    /\ chd = <<>>
    /\ chd' = <<CdConstruct(file.kind, file.hunkbytes)>>
    /\ last' = Call("construct", "ok", 0, 0, <<>>)
    /\ UNCHANGED <<file, build>>
DoCdDecompress ==
    /\ chd # <<>> /\ ~Aborted(last.res) /\ last.ret < CdMaxCalls
    /\ \E a \in CdCalls(file.hunkbytes \div FRAME_SIZE) :
       \E r \in {CdDecompress(chd[1], CdSource(file.hunkbytes \div FRAME_SIZE, a),
                               [k \in 1..file.hunkbytes |-> Fill])} :
         /\ chd' = <<r.codec>>
         /\ last' = Call("decompress", r.res, a, last.ret + 1, r.buf)
    /\ UNCHANGED <<file, build>>
NextCd ==
    \/ DoCdConstruct
    \/ DoCdDecompress
SpecCd == InitCd /\ [][NextCd]_vars

\* open alone, on the compressed maps
InitMap ==
    /\ file \in MapFiles
    /\ build \in Builds
    /\ chd = <<>>
    /\ last = Call("none", "ok", 0, 0, <<>>)
SpecMap == InitMap /\ [][DoOpen]_vars

-----------------------------------------------------------------------------
(* What the claims are measured against *)

\* read_hunk of hunk h on reader c into a buffer of Fill bytes
RefHunk(c, h) ==
    ChdReadHunk(c, h, [k \in 1..c.header.hunkbytes |-> Fill], build)

\* Hunk h decodes, and to the same bytes whatever the buffer held before
Decodes(c, h) ==
    LET a == RefHunk(c, h)
        b == ChdReadHunk(c, h, [k \in 1..c.header.hunkbytes |-> 0], build)
    IN  a.res = "ok" /\ b.res = "ok" /\ a.buf = b.buf

\* The map entry reached from hunk h by following SELF references
RECURSIVE Resolve(_, _, _)
Resolve(c, h, depth) ==
    LET m == Locate(c, h)
    IN  IF m.panic \/ depth > Len(c.map.entries) THEN [hunk |-> h, entry |-> m]
        ELSE IF m.compression = COMPRESSION_SELF THEN Resolve(c, m.offset, depth + 1)
        ELSE [hunk |-> h, entry |-> m]

\* The hunks a read of n bytes at position pos intersects
Intersecting(c, pos, n) ==
    IF n = 0 THEN {}
    ELSE (pos \div c.header.hunkbytes)..((pos + n - 1) \div c.header.hunkbytes)

\* The length a read of n bytes at pos is clipped to
Clipped(c, n) ==
    IF WLt(WSub(c.header.size, WInt(c.pos)), WInt(n))
    THEN c.header.size.r - c.pos ELSE n

-----------------------------------------------------------------------------
(* C1 *)

\* C1: after any sequence of seeks and reads, a successful read of n bytes
\* at position a with a + n <= size returns, byte for byte, what read_hunk
\* decodes for the hunks it intersects, whatever the cache holds.
C1_ReadIsHunkSlices ==
    [][ (last'.op = "read" /\ last'.res = "ok"
         /\ WLe(WInt(Self.pos + last'.arg), Self.header.size))
        => \A i \in 1..last'.arg :
             LET at == Self.pos + i - 1
                 h == at \div Self.header.hunkbytes
             IN  Decodes(Self, h)
                 => last'.out[i] = RefHunk(Self, h).buf[(at % Self.header.hunkbytes) + 1]
      ]_vars

-----------------------------------------------------------------------------
(* C2 *)

\* C2: a read of n >= 0 bytes at any pos in [0, size], n = 0 and pos = 0
\* included, when it succeeds returns min(n, size - pos) and advances pos by
\* that count; when that count is zero the call returns 0 and leaves pos.
C2_ReadCount ==
    [][ last'.op = "read"
        => /\ last'.res = "ok"
              => /\ last'.ret = Clipped(Self, last'.arg)
                 /\ chd'[1].pos = Self.pos + last'.ret
           /\ Clipped(Self, last'.arg) = 0
              => /\ last'.res = "ok" /\ last'.ret = 0
                 /\ chd'[1].pos = Self.pos
      ]_vars

-----------------------------------------------------------------------------
(* C3 *)

\* C3: a seek succeeds exactly when its target (s, pos + d, size + d) lies
\* in [0, size]; then it returns the target, which becomes pos.  Otherwise
\* (out of range, or the signed addition overflows) it returns an error and
\* pos keeps its value.
C3_SeekInRange ==
    [][ last'.op = "seek"
        => /\ last'.res = "ok" <=> last'.arg.case = "in"
           /\ last'.res = "ok"
              => /\ WInt(last'.ret) = last'.arg.target
                 /\ chd'[1].pos = last'.ret
           /\ last'.res # "ok"
              => IsErr(last'.res) /\ chd'[1].pos = Self.pos
      ]_vars

-----------------------------------------------------------------------------
(* C4 *)

\* C4: a failed decode does not poison the reader: whenever the cache tag
\* names hunk h, the cache buffer holds the decoded contents of hunk h.
C4_CacheHoldsTaggedHunk ==
    (chd # <<>> /\ Self.cachehunk # USIZE_MAX /\ Decodes(Self, Self.cachehunk.r))
    => Self.cache = RefHunk(Self, Self.cachehunk.r).buf

-----------------------------------------------------------------------------
(* C5 *)

\* What a reader like the attached parent, used for nothing else, delivers
\* at byte offset unit * unitbytes into a buffer of hunkbytes bytes
ParentRef(c, unit) ==
    LET p == [c.parent[1] EXCEPT !.pos = 0, !.cachehunk = USIZE_MAX,
                                 !.cache = [k \in 1..c.parent[1].header.hunkbytes |-> 0]]
        sk == Seek(p, [whence |-> "Start", x |-> WInt(unit * p.header.unitbytes)])
        rd == Read(sk.chd, [k \in 1..c.header.hunkbytes |-> Fill], build)
    IN  IF sk.res # "ok" THEN [res |-> sk.res, n |-> 0, buf |-> <<>>]
        ELSE [res |-> rd.res, n |-> rd.n, buf |-> rd.buf]

ResolvesToParent(c, h) ==
    h < c.header.hunkcount
    /\ Resolve(c, h, 0).entry.compression = COMPRESSION_PARENT

\* C5: with no parent attached, read_hunk of a hunk that resolves to a PARENT
\* entry, and every read that has to decode one, returns an error; with the
\* matching parent attached read_hunk of such a hunk yields the parent's
\* bytes from offset * parent.unitbytes on, up to hunkbytes of them.
C5_ParentHunks ==
    [][ /\ (last'.op = "read_hunk" /\ ResolvesToParent(Self, last'.arg))
           => IF Self.parent = <<>> THEN IsErr(last'.res)
              ELSE LET ref == ParentRef(Self, Resolve(Self, last'.arg, 0).entry.offset)
                   IN  ref.res = "ok"
                       => /\ last'.res = "ok"
                          /\ \A k \in 1..ref.n : last'.out[k] = ref.buf[k]
        /\ (last'.op = "read" /\ Self.parent = <<>>
            /\ \E h \in Intersecting(Self, Self.pos, Clipped(Self, last'.arg)) :
                 ResolvesToParent(Self, h))
           => IsErr(last'.res)
      ]_vars

-----------------------------------------------------------------------------
(* C6 *)

\* C6: set_parent(p) succeeds and attaches p exactly when p's sha1 equals the
\* child's parentsha1; otherwise it returns an error and the reader, its
\* parent link included, is as it was.
C6_SetParentIffSha1 ==
    [][ last'.op = "set_parent"
        => /\ last'.res = "ok" <=> last'.arg = Self.header.parentsha1
           /\ last'.res = "ok"
              => /\ chd'[1].parent # <<>>
                 /\ chd'[1].parent[1].header.sha1 = last'.arg
                 /\ [chd'[1] EXCEPT !.parent = Self.parent] = Self
           /\ last'.res # "ok" => IsErr(last'.res) /\ chd' = chd
      ]_vars

\* A reader that holds a parent turned a mismatching one down and kept its own
C6_Witness ==
    /\ chd # <<>> /\ last.op = "set_parent" /\ IsErr(last.res)
    /\ last.arg # Self.header.parentsha1
    /\ Self.parent # <<>> /\ Self.parent[1].header.sha1 = Self.header.parentsha1

-----------------------------------------------------------------------------
(* C7 *)

\* C7 as stated: on a compressed map, validate_hunk(i), i < hunkcount,
\* succeeds exactly when hunk i decodes and the CRC-16 of its bytes equals
\* the crc field of map entry i.
C7_ValidateHunkIffEntryCrc ==
    (chd # <<>> /\ last.op = "validate_hunk" /\ Self.map.compressed
     /\ last.arg < Self.header.hunkcount)
    => (last.res = "ok"
        <=> /\ RefHunk(Self, last.arg).res = "ok"
            /\ crc16(RefHunk(Self, last.arg).buf) = Self.map.entries[last.arg + 1].crc)

\* C7, amended: validate_hunk(i) succeeds exactly when the entry j reached
\* from i through SELF references is not a PARENT entry, the hunk decodes and
\* the CRC-16 of its bytes equals the crc field of entry j.
C7_ValidateHunkIffResolvedCrc ==
    (chd # <<>> /\ last.op = "validate_hunk" /\ Self.map.compressed
     /\ last.arg < Self.header.hunkcount)
    => LET t == Resolve(Self, last.arg, 0)
       IN  last.res = "ok"
           <=> /\ t.entry.compression # COMPRESSION_PARENT
               /\ RefHunk(Self, last.arg).res = "ok"
               /\ crc16(RefHunk(Self, last.arg).buf) = Self.map.entries[t.hunk + 1].crc

\* validate_hunk of a SELF entry succeeded
C7_Witness ==
    /\ chd # <<>> /\ last.op = "validate_hunk" /\ last.res = "ok"
    /\ Self.map.compressed /\ last.arg < Self.header.hunkcount
    /\ Self.map.entries[last.arg + 1].compression = COMPRESSION_SELF

-----------------------------------------------------------------------------
(* C8 *)

\* C8: validate_hunk(i) returns an error whenever the SELF references from i
\* end at a PARENT entry, with or without a parent attached, and validate
\* returns an error on every map that holds a PARENT entry.
C8_ParentNeverValidates ==
    /\ (chd # <<>> /\ last.op = "validate_hunk" /\ ResolvesToParent(Self, last.arg))
       => IsErr(last.res)
    /\ (chd # <<>> /\ last.op = "validate" /\ Self.map.compressed
        /\ \E h \in 1..Len(Self.map.entries) :
             Self.map.entries[h].compression = COMPRESSION_PARENT)
       => IsErr(last.res)

\* The parent is attached, the hunk is a SELF entry that ends at a PARENT
\* entry and reads fine, and validate_hunk turned it down
C8_Witness ==
    /\ chd # <<>> /\ last.op = "validate_hunk" /\ IsErr(last.res)
    /\ Self.parent # <<>> /\ ResolvesToParent(Self, last.arg)
    /\ Self.map.entries[last.arg + 1].compression = COMPRESSION_SELF
    /\ RefHunk(Self, last.arg).res = "ok"

-----------------------------------------------------------------------------
(* C9 *)

\* The hunks decoded by validate_hunk for each of the calls, in order
RECURSIVE DecodedBy(_, _)
DecodedBy(c, calls) ==
    IF calls = <<>> THEN <<>>
    ELSE ValidateHunk(c, Head(calls), build, 0).decoded \o DecodedBy(c, Tail(calls))

\* C9: validate calls validate_hunk for 0, 1, 2, ... in this order, stops at
\* the first call that fails and returns its error, decoding nothing for a
\* later hunk; it succeeds only when every hunk validated.
C9_ValidateStopsAtFirstError ==
    (chd # <<>> /\ last.op = "validate")
    => LET calls == last.ret
       IN  /\ calls = [k \in 1..Len(calls) |-> k - 1]
           /\ Len(calls) <= Self.header.hunkcount
           /\ \A k \in 1..(Len(calls) - 1) :
                ValidateHunk(Self, calls[k], build, 0).res = "ok"
           /\ last.out = DecodedBy(Self, calls)
           /\ last.res = "ok"
              => /\ Len(calls) = Self.header.hunkcount
                 /\ \A i \in 0..(Self.header.hunkcount - 1) :
                      ValidateHunk(Self, i, build, 0).res = "ok"
           /\ last.res # "ok"
              => /\ Len(calls) >= 1
                 /\ ValidateHunk(Self, calls[Len(calls)], build, 0).res = last.res

\* validate stopped at the second of three hunks
C9_Witness ==
    /\ chd # <<>> /\ last.op = "validate" /\ IsErr(last.res)
    /\ Self.header.hunkcount = 3 /\ last.ret = <<0, 1>>

-----------------------------------------------------------------------------
(* C10 *)

\* The conditions open checks on a header, as the format states them
HeaderAccepted(f) ==
    /\ f.magic = <<77, 67, 111, 109, 112, 114, 72, 68>>
    /\ f.version = 5 /\ f.length = 124
    /\ 1 <= f.hunkbytes /\ f.hunkbytes <= 524288
    /\ 1 <= f.unitbytes /\ f.unitbytes <= f.hunkbytes
    /\ f.hunkbytes % f.unitbytes = 0

\* C10: open returns an error and no reader unless the magic is "MComprHD",
\* version is 5, length is 124, 1 <= hunkbytes <= 524288, 1 <= unitbytes <=
\* hunkbytes and hunkbytes is a multiple of unitbytes; an opened reader's
\* header satisfies all of them.
C10_OpenRejectsBadHeader ==
    /\ (last.op = "open" /\ ~HeaderAccepted(file))
       => IsErr(last.res) /\ chd = <<>>
    /\ chd # <<>>
       => /\ HeaderAccepted(file)
          /\ HeaderAccepted([file EXCEPT !.version = Self.header.version,
                                         !.length = Self.header.length,
                                         !.hunkbytes = Self.header.hunkbytes,
                                         !.unitbytes = Self.header.unitbytes])

\* A header that is right except for hunkbytes = 524289 was turned down
C10_Witness ==
    /\ last.op = "open" /\ IsErr(last.res) /\ chd = <<>>
    /\ HeaderAccepted([file EXCEPT !.hunkbytes = 524288])
    /\ file.hunkbytes = 524289 /\ ~file.truncated

-----------------------------------------------------------------------------
(* C11 *)

\* Whether the ceiling of size / hunkbytes, for 1 <= hunkbytes <= 2^19,
\* fits in 32 bits: a size of 2^62 - 2^30 or more has a ceiling of 2^43 or
\* more, a size below 2^30 a ceiling below 2^30.
CeilFits(size) == size.k = 0

\* C11: an opened reader's hunkcount is the ceiling of size / hunkbytes as
\* exact integers, and open returns an error when that does not fit 32 bits.
C11_HunkCountIsCeiling ==
    /\ (chd # <<>> /\ CeilFits(file.size))
       => Self.header.hunkcount * file.hunkbytes >= file.size.r
          /\ (Self.header.hunkcount - 1) * file.hunkbytes < file.size.r
    /\ (last.op = "open" /\ ~file.truncated /\ HeaderAccepted(file)
        /\ ~CeilFits(file.size))
       => IsErr(last.res) /\ chd = <<>>

-----------------------------------------------------------------------------
(* C12 *)

\* C12: a reader of a compressed-map file exists only if the CRC-16 of its
\* expanded map, 12 bytes per hunk, equals the crc of the map header; open
\* of a file for which they differ fails and leaves no reader.
C12_OpenChecksMapCrc ==
    /\ (chd # <<>> /\ file.compressors[1] # 0)
       => MapCrc(Self.map.entries) = file.map.hdr.crc
    /\ (last.op = "open" /\ IsErr(last.res)) => chd = <<>>

\* open has refused a map that expands well, to hunks of types 0, 5, 5, 5,
\* and whose header crc is one off
C12_Witness ==
    /\ last.op = "open" /\ last.res = "InvalidData" /\ chd = <<>>
    /\ file.size = WInt(8)
    /\ file.map.comprmap = <<1, 0, 5>> \o MapTail
    /\ file.map.hdr.lengthbits = 8
    /\ file.map.hdr.crc = (ExpandedCrc(4, file.map.comprmap) + 1) % 65536

-----------------------------------------------------------------------------
(* C13 *)

\* The types pass 1 gives the hunks of the file, pseudo-types included
DecodedTypes ==
    Pass1(file.map.comprmap, HunkCount(file.size, file.hunkbytes, build).hunkcount,
          0, 0, 0, 0, <<>>).types

\* C13: every entry of the map of an opened compressed-map file has a type
\* in 0..6; a hunk whose decoded type is 9 or 10 is stored as SELF, one whose
\* decoded type is 11, 12 or 13 as PARENT, every other one as decoded; and open
\* fails when some hunk's decoded type is above 13.  (7 and 8 never are a
\* hunk's decoded type.)
C13_OnlyResolvedTypes ==
    /\ (chd # <<>> /\ file.compressors[1] # 0)
       => /\ Len(Self.map.entries) = Self.header.hunkcount
          /\ \A h \in 1..Len(Self.map.entries) :
               /\ Self.map.entries[h].compression \in 0..COMPRESSION_PARENT
               /\ Self.map.entries[h].compression =
                    (IF DecodedTypes[h] \in {COMPRESSION_SELF_0, COMPRESSION_SELF_1}
                     THEN COMPRESSION_SELF
                     ELSE IF DecodedTypes[h] \in COMPRESSION_PARENT_SELF..COMPRESSION_PARENT_1
                     THEN COMPRESSION_PARENT
                     ELSE DecodedTypes[h])
    /\ (last.op = "open" /\ file.compressors[1] # 0 /\ ~file.truncated
        /\ HeaderAccepted(file)
        /\ HunkCount(file.size, file.hunkbytes, build).res = "ok")
       => /\ \A h \in 1..Len(DecodedTypes) :
               DecodedTypes[h] \notin {COMPRESSION_RLE_SMALL, COMPRESSION_RLE_LARGE}
          /\ (\E h \in 1..Len(DecodedTypes) : DecodedTypes[h] > COMPRESSION_PARENT_1)
             => IsErr(last.res) /\ chd = <<>>

\* open has stored SELF for a decoded SELF_1 and PARENT, of unit 2, for a
\* decoded PARENT_1
C13_Witness ==
       /\ chd # <<>> /\ last.op = "open" /\ file.compressors[1] # 0
       /\ Len(Self.map.entries) = 4
       /\ DecodedTypes[1] = COMPRESSION_SELF_1
       /\ DecodedTypes[2] = COMPRESSION_PARENT_1
       /\ Self.map.entries[1].compression = COMPRESSION_SELF
       /\ Self.map.entries[2].compression = COMPRESSION_PARENT
       /\ Self.map.entries[2].offset = 2

-----------------------------------------------------------------------------
(* C14 *)

\* What the codec named by a tag makes of the stored bytes of a hunk
KnownTags ==
    {CHD_CODEC_HUFF, CHD_CODEC_FLAC, CHD_CODEC_LZMA, CHD_CODEC_ZLIB,
     CHD_CODEC_CD_FLAC, CHD_CODEC_CD_LZMA, CHD_CODEC_CD_ZLIB}
Stored(e) == SubSeq(file.data, e.offset + 1, e.offset + e.complength)
ByTag(tag, src, dest) ==
    CASE tag = CHD_CODEC_HUFF -> HuffmanDecompress(src, dest)
      [] tag = CHD_CODEC_FLAC -> FlacDecompress(src, dest)

\* C14: slot k of a reader is absent exactly when compressors[k] is 0; open
\* succeeds on a readable header and map whatever tags create does not know;
\* and read_hunk of a hunk of type k in 0..3 is an error when compressors[k]
\* is 0 or not a known tag, and otherwise the outcome of the codec of that
\* tag on the hunk's stored bytes.
C14_SlotOfType ==
    /\ chd # <<>>
       => \A k \in 1..4 : (Self.decompress[k] = "None") <=> (file.compressors[k] = 0)
    /\ (last.op = "open" /\ HeaderRead(file, build).res = "ok"
        /\ \A k \in 1..4 : file.compressors[k] \notin KnownTags)
       => last.res = "ok" /\ chd # <<>>
    /\ (last.op = "read_hunk" /\ file.compressors[1] # 0
        /\ Self.map.entries[last.arg + 1].compression <= COMPRESSION_TYPE_3)
       => \E e \in {Self.map.entries[last.arg + 1]} :
          \E tag \in {file.compressors[e.compression + 1]} :
            IF tag \notin KnownTags
            THEN last.res = "InvalidData" /\ last.out = [i \in 1..file.hunkbytes |-> Fill]
            ELSE \E r \in {ByTag(tag, Stored(e), [i \in 1..file.hunkbytes |-> Fill])} :
                   last.res = r.res /\ last.out = r.buf

\* read_hunk has decoded a hunk of type 1 with the Huffman codec of slot 1
\* while slot 0 holds the FLAC codec and slot 2 an unknown tag
C14_Witness ==
    /\ last.op = "read_hunk" /\ last.arg = 1 /\ last.res = "ok"
    /\ last.out = <<67, 68>>
    /\ file.compressors = <<CHD_CODEC_FLAC, CHD_CODEC_HUFF, UnknownTag, 0>>
    /\ Self.map.entries[2].compression = 1
    /\ Self.decompress = <<"Flac", "Huffman", "Unknown", "None">>

-----------------------------------------------------------------------------
(* C15 *)

\* C15: every error that open, set_parent, seek, read, read_hunk,
\* validate_hunk or validate returns is of the kind InvalidData.
C15_ErrorsAreInvalidData ==
    last.res \in ErrKinds => last.res = "InvalidData"

-----------------------------------------------------------------------------
(* C16 *)

\* C16: open returns a reader for every file whose header and map are read
\* without error, whatever its codec tags and hunkbytes are: building the
\* codec slots does not abort.
C16_OpenBuildsSlots ==
    (last.op = "open" /\ HeaderRead(file, build).res = "ok")
    => last.res = "ok" /\ chd # <<>>

-----------------------------------------------------------------------------
(* C17 *)

\* C17: on an opened reader whose hunk count is the one the header's size
\* calls for, read_hunk of a hunk below hunkcount and read into a buffer
\* that is not empty end with data or an error, never with an abort.
C17_NeverAborts ==
    (CeilFits(file.size)
     /\ (last.op = "read_hunk" \/ (last.op = "read" /\ last.arg > 0)))
    => ~Aborted(last.res)

-----------------------------------------------------------------------------
(* C18 *)

\* What the statement says a read of the bytes from..to-1 does hunk by hunk,
\* from hunk h on, with the cache tagged tag: the hunks decoded, where each
\* is decoded into, and the tag at the end
RECURSIVE Frame(_, _, _, _, _)
FrameStep(from, to, hb, h, tag, whole) ==
    IF WInt(h) = tag THEN Frame(from, to, hb, h + 1, tag)
    ELSE IF whole
    THEN [Frame(from, to, hb, h + 1, tag)
            EXCEPT !.log = <<[hunk |-> h, into |-> "dest"]>> \o @]
    ELSE [Frame(from, to, hb, h + 1, WInt(h))
            EXCEPT !.log = <<[hunk |-> h, into |-> "cache"]>> \o @]
Frame(from, to, hb, h, tag) ==
    IF from >= to \/ h * hb >= to THEN [log |-> <<>>, tag |-> tag]
    ELSE FrameStep(from, to, hb, h, tag, from <= h * hb /\ (h + 1) * hb <= to)

\* C18: a read decodes the hunks of its range that the cache is not tagged
\* with, in order, up to the end of the range or to the first error: into
\* the caller's buffer when the whole hunk is wanted, leaving the cache and
\* its tag as they are, and into the cache otherwise, after which, the
\* decode having succeeded, the tag names that hunk; a hunk the cache is
\* tagged with is not decoded.  seek changes neither the cache nor its tag.
C18_ReadFrame ==
    [][/\ (last'.op = "read" /\ last'.arg > 0 /\ ~Aborted(last'.res)
           /\ file.size.k = 0)
          => \E x \in {Frame(Self.pos,
                             IF Self.pos + last'.arg <= file.size.r
                             THEN Self.pos + last'.arg ELSE file.size.r,
                             Self.header.hunkbytes,
                             Self.pos \div Self.header.hunkbytes, Self.cachehunk)} :
               /\ Len(last'.log) <= Len(x.log)
               /\ last'.log = SubSeq(x.log, 1, Len(last'.log))
               /\ last'.res = "ok"
                  => last'.log = x.log /\ chd'[1].cachehunk = x.tag
               /\ (\A i \in 1..Len(last'.log) : last'.log[i].into = "dest")
                  => chd'[1].cache = Self.cache /\ chd'[1].cachehunk = Self.cachehunk
       /\ last'.op = "seek"
          => chd'[1].cache = Self.cache /\ chd'[1].cachehunk = Self.cachehunk
      ]_vars

\* A read of 3 bytes at 0 has decoded hunk 0 into the caller's buffer and
\* hunk 1 into the cache, which is now tagged 1
C18_Witness ==
    /\ last.op = "read" /\ last.res = "ok" /\ last.arg = 3 /\ last.ret = 3
    /\ last.log = <<[hunk |-> 0, into |-> "dest"], [hunk |-> 1, into |-> "cache"]>>
    /\ Self.pos = 3 /\ Self.cachehunk = WInt(1)
    /\ file.hunkbytes = 2

-----------------------------------------------------------------------------
(* C19 *)

\* The number of SELF entries on the way from hunk i to an entry that is
\* not SELF, or -1 when no such entry is reached within `fuel` links
RECURSIVE SelfLinks(_, _, _)
SelfLinks(entries, i, fuel) ==
    IF fuel < 0 \/ i < 0 \/ i >= Len(entries) THEN -1
    ELSE IF entries[i + 1].compression # COMPRESSION_SELF THEN 0
    ELSE IF SelfLinks(entries, entries[i + 1].offset, fuel - 1) < 0 THEN -1
    ELSE 1 + SelfLinks(entries, entries[i + 1].offset, fuel - 1)
NoSelfCycle(entries) ==
    \A i \in 0..(Len(entries) - 1) : SelfLinks(entries, i, Len(entries)) >= 0

\* C19: on a compressed map whose SELF entries all lead to an entry that is
\* not SELF, read_hunk(i) and validate_hunk(i), i < hunkcount, return after
\* following the SELF links from hunk i, of which there are at most
\* hunkcount - 1; and neither writes the cache or changes its tag.
C19_SelfChainsEnd ==
    [][((last'.op = "read_hunk" \/ (last'.op = "validate_hunk" /\ last'.arg < Self.header.hunkcount))
        /\ file.compressors[1] # 0 /\ NoSelfCycle(Self.map.entries))
       => /\ last'.res # "diverges"
          /\ last'.ret = SelfLinks(Self.map.entries, last'.arg, Len(Self.map.entries))
          /\ last'.ret <= Self.header.hunkcount - 1
          /\ chd'[1].cache = Self.cache /\ chd'[1].cachehunk = Self.cachehunk
      ]_vars

\* read_hunk(2) has followed two SELF links, from hunk 2 to hunk 1 to hunk 0,
\* and decoded hunk 0, while the cache held hunk 1
C19_Witness ==
    /\ last.op = "read_hunk" /\ last.arg = 2 /\ last.ret = 2 /\ last.res = "ok"
    /\ last.out = <<65, 66>>
    /\ Self.header.hunkcount = 3
    /\ Self.map.entries[3].compression = COMPRESSION_SELF
    /\ Self.map.entries[2].compression = COMPRESSION_SELF
    /\ Self.cachehunk = WInt(1)

-----------------------------------------------------------------------------
(* C20 *)

\* What the statement says pass 1 yields, read symbol by symbol: the types
\* of the next `left` hunks when the next symbol is the i-th, and the number
\* of symbols taken
Symbol(src, i) == IF i + 1 <= Len(src) THEN src[i + 1] % 16 ELSE 0
RunOf(lastcomp, n) == [k \in 1..n |-> lastcomp]
After(types, rest) == [types |-> types \o rest.types, used |-> rest.used]
RECURSIVE Expand(_, _, _, _)
ExpandRun(src, next, lastcomp, left, run) ==
    IF run >= left THEN [types |-> RunOf(lastcomp, left), used |-> next - 1]
    ELSE After(RunOf(lastcomp, run), Expand(src, next, lastcomp, left - run))
Expand(src, i, lastcomp, left) ==
    IF left = 0 THEN [types |-> <<>>, used |-> i - 1]
    ELSE IF Symbol(src, i) = COMPRESSION_RLE_SMALL
    THEN ExpandRun(src, i + 2, lastcomp, left, 1 + 2 + Symbol(src, i + 1))
    ELSE IF Symbol(src, i) = COMPRESSION_RLE_LARGE
    THEN ExpandRun(src, i + 3, lastcomp, left,
                   1 + 2 + 16 + 16 * Symbol(src, i + 1) + Symbol(src, i + 2))
    ELSE After(<<Symbol(src, i)>>, Expand(src, i + 1, Symbol(src, i), left - 1))

\* The first bit field pass 2 reads for a hunk of type 0..6
FieldBits(hdr, t) ==
    IF t <= COMPRESSION_TYPE_3 THEN hdr.lengthbits
    ELSE IF t = COMPRESSION_NONE THEN 16
    ELSE IF t = COMPRESSION_SELF THEN hdr.hunkbits ELSE hdr.parentbits
FirstField(e) ==
    IF e.compression <= COMPRESSION_TYPE_3 THEN e.complength
    ELSE IF e.compression = COMPRESSION_NONE THEN e.crc ELSE e.offset

StoredAs(t) ==
    IF t \in {COMPRESSION_SELF_0, COMPRESSION_SELF_1} THEN COMPRESSION_SELF
    ELSE IF t \in COMPRESSION_PARENT_SELF..COMPRESSION_PARENT_1 THEN COMPRESSION_PARENT
    ELSE t

\* C20: the hunk types of an opened compressed-map file are those of the
\* symbol stream read with lastcomp 0 at the start, RLE_SMALL n standing for
\* the current hunk and the next 2 + n, RLE_LARGE a b for the current hunk
\* and the next 2 + 16 + 16a + b, runs cut at hunkcount; and pass 2 reads its
\* first field right after the symbols so consumed.
C20_RunLengths ==
    (chd # <<>> /\ file.compressors[1] # 0)
    => \E x \in {Expand(file.map.comprmap, 1, 0, Self.header.hunkcount)} :
         /\ Len(x.types) = Self.header.hunkcount
         /\ x.types = DecodedTypes
         /\ \A h \in 1..Len(x.types) :
              Self.map.entries[h].compression = StoredAs(x.types[h])
         /\ (Len(x.types) > 0 /\ x.types[1] <= COMPRESSION_PARENT)
            => FirstField(Self.map.entries[1])
                 = bits_read(file.map.comprmap, x.used + 1,
                             FieldBits(file.map.hdr, x.types[1]))

\* open has read the symbols NONE, RLE_SMALL 0, SELF, SELF_0 as hunks 0..3
\* of type NONE and hunks 4 and 5 of type SELF
C20_Witness ==
    /\ chd # <<>> /\ last.op = "open" /\ file.compressors[1] # 0
    /\ Self.header.hunkcount = 21
    /\ SubSeq(file.map.comprmap, 2, 6) = <<COMPRESSION_NONE, COMPRESSION_RLE_SMALL, 0, 5, 9>>
    /\ \A h \in 1..4 : Self.map.entries[h].compression = COMPRESSION_NONE
    /\ Self.map.entries[5].compression = COMPRESSION_SELF
    /\ Self.map.entries[6].compression = COMPRESSION_SELF

-----------------------------------------------------------------------------
(* C21 *)

\* The hunks of the opened map that take room in the file: base codecs and NONE
Placed == { h \in 1..Len(Self.map.entries) : Self.map.entries[h].compression <= COMPRESSION_NONE }
PlacedBefore(h) == { g \in Placed : g < h }
Previous(h) == CHOOSE g \in PlacedBefore(h) : \A k \in PlacedBefore(h) : k <= g

\* C21: in the map of an opened compressed-map file the hunks of a base codec
\* and of type NONE lie one after the other: the first at the first offset of
\* the map header, each later one at the offset of the one before it plus
\* that one's stored length, a NONE hunk having length hunkbytes; SELF and
\* PARENT entries have length 0 and crc 0.
C21_Contiguous ==
    (chd # <<>> /\ file.compressors[1] # 0)
    => \A h \in 1..Len(Self.map.entries) :
         IF h \in Placed
         THEN /\ Self.map.entries[h].offset =
                   (IF PlacedBefore(h) = {} THEN file.map.hdr.firstoffs
                    ELSE Self.map.entries[Previous(h)].offset
                         + Self.map.entries[Previous(h)].complength)
              /\ Self.map.entries[h].compression = COMPRESSION_NONE
                 => Self.map.entries[h].complength = Self.header.hunkbytes
         ELSE /\ Self.map.entries[h].complength = 0
              /\ Self.map.entries[h].crc = 0

-----------------------------------------------------------------------------
(* C22 *)

\* What a reader like the attached parent, used for nothing else, delivers
\* from byte offset at on into a buffer of hunkbytes bytes
ParentBlock(c, at) ==
    LET p == [c.parent[1] EXCEPT !.pos = 0, !.cachehunk = USIZE_MAX,
                                 !.cache = [k \in 1..c.parent[1].header.hunkbytes |-> 0]]
        sk == Seek(p, [whence |-> "Start", x |-> WInt(at)])
        rd == Read(sk.chd, [k \in 1..c.header.hunkbytes |-> Fill], build)
    IN  IF sk.res # "ok" THEN [res |-> sk.res, n |-> 0, buf |-> <<>>]
        ELSE [res |-> rd.res, n |-> rd.n, buf |-> rd.buf]

\* C22: with a parent attached, read_hunk of a hunk h that the map stream
\* gives the type PARENT_SELF succeeds and delivers the hunkbytes bytes of
\* the parent that start at byte h * hunkbytes, whatever the unit sizes of
\* child and parent are.
C22_ParentSelfSameBlock ==
    (chd # <<>> /\ last.op = "read_hunk" /\ Self.parent # <<>>
     /\ DecodedTypes[last.arg + 1] = COMPRESSION_PARENT_SELF)
    => /\ last.res = "ok"
       /\ last.out = ParentBlock(Self, last.arg * Self.header.hunkbytes).buf

-----------------------------------------------------------------------------
(* C23 *)

\* The sector and the subcode that frame i of a call gets from the payloads
\* the call's two streams expand to
PayloadSector(a, i) == [k \in 1..MAX_SECTOR_DATA |-> DataByte(a.seed, i * MAX_SECTOR_DATA + k)]
PayloadSubcode(a, i) == [k \in 1..MAX_SUBCODE_DATA |-> SubByte(a.seed, i * MAX_SUBCODE_DATA + k)]
Flagged(a, i) == (a.flags \div (2 ^ i)) % 2 = 1
FrameOf(out, i) == SubSeq(out, i * FRAME_SIZE + 1, (i + 1) * FRAME_SIZE)

\* C23: when decompress of CD-ZLIB or CD-LZMA succeeds on a hunk of F frames,
\* the two payloads have a byte for every byte of the F frames, and frame i
\* of the output is sector i of the data payload, with the sync pattern over
\* its first 12 bytes and the ECC regenerated when the frame's flag is set
\* and as it is otherwise, followed by the 96 subcode bytes of frame i as
\* they are in the subcode payload.
C23_CdFrames ==
    (last.op = "decompress" /\ last.res = "ok")
    => /\ last.arg.dn = (file.hunkbytes \div FRAME_SIZE) * MAX_SECTOR_DATA
       /\ last.arg.sn = (file.hunkbytes \div FRAME_SIZE) * MAX_SUBCODE_DATA
       /\ \A i \in 0..((file.hunkbytes \div FRAME_SIZE) - 1) :
            FrameOf(last.out, i) =
              (IF Flagged(last.arg, i)
               THEN ecc_generate(SYNC_HEADER
                                 \o SubSeq(PayloadSector(last.arg, i),
                                           SYNC_NUM_BYTES + 1, MAX_SECTOR_DATA))
               ELSE PayloadSector(last.arg, i))
              \o PayloadSubcode(last.arg, i)

-----------------------------------------------------------------------------
(* C24 *)

\* C24: decompress of the Zlib codec succeeds only if src is one well-formed
\* stream, with nothing after it, that expands to exactly as many bytes as
\* dest has.
C24_InflateExact ==
    (last.op = "decompress" /\ last.res = "ok")
    => /\ stream_ok(file.src)
       /\ file.src[2] = Len(file.dest)
       /\ stream_rest(file.src) = 0

=============================================================================
